---- MODULE Spec2Model ----
(***************************************************************************)
(* A model of the algorithm service of src/src/backend/handler.ts: the     *)
(* canonical encoder and cache-key derivation, the option validator, the   *)
(* randomized minimum-cut algorithm and the request handler with its       *)
(* result store.                                                            *)
(*                                                                          *)
(* Strings are sequences of UTF-16 code units, each code unit written as a  *)
(* one-character TLA+ string ("A", "|", "#") or, outside ASCII, as its      *)
(* code point name ("U+00E9").  JSON values are records [t, v] with the     *)
(* tag t first; objects keep their entries in insertion order.             *)
(***************************************************************************)
EXTENDS Integers, Sequences, FiniteSets, TLC

(***************************************************************************)
(* Bounds of the model.                                                     *)
(***************************************************************************)
MaxEdges == 3
MaxIterations == 2

(***************************************************************************)
(* Code units and strings.                                                  *)
(***************************************************************************)
\* The UTF-16 code unit of a character of the model's alphabet.
CodeUnit(c) ==
  CASE c = "\"" -> 34 [] c = "#" -> 35 [] c = "," -> 44 [] c = "-" -> 45
    [] c = "0" -> 48 [] c = "1" -> 49 [] c = "2" -> 50 [] c = "3" -> 51
    [] c = "4" -> 52 [] c = "5" -> 53 [] c = "6" -> 54 [] c = "7" -> 55
    [] c = "8" -> 56 [] c = "9" -> 57 [] c = ":" -> 58
    [] c = "A" -> 65 [] c = "B" -> 66 [] c = "C" -> 67 [] c = "D" -> 68
    [] c = "[" -> 91 [] c = "\\" -> 92 [] c = "]" -> 93
    [] c = "a" -> 97 [] c = "b" -> 98 [] c = "c" -> 99 [] c = "d" -> 100
    [] c = "e" -> 101 [] c = "f" -> 102 [] c = "g" -> 103 [] c = "i" -> 105
    [] c = "l" -> 108 [] c = "m" -> 109 [] c = "n" -> 110 [] c = "o" -> 111
    [] c = "p" -> 112 [] c = "r" -> 114 [] c = "s" -> 115 [] c = "t" -> 116
    [] c = "u" -> 117 [] c = "v" -> 118 [] c = "{" -> 123 [] c = "|" -> 124
    [] c = "}" -> 125 [] c = "U+00E9" -> 233 [] c = "U+0301" -> 769
    [] c = " " -> 32 [] c = "O" -> 79 [] c = "X" -> 88 [] c = "j" -> 106
    [] c = "." -> 46 [] c = "N" -> 78

RECURSIVE StrLess(_, _)
\* a < b in the order of Array.prototype.sort() without a comparator:
\* lexicographic by code unit, a proper prefix first.
StrLess(a, b) ==
  IF b = <<>> THEN FALSE
  ELSE IF a = <<>> THEN TRUE
  ELSE IF Head(a) # Head(b) THEN CodeUnit(Head(a)) < CodeUnit(Head(b))
  ELSE StrLess(Tail(a), Tail(b))

RECURSIVE InsertSorted(_, _)
InsertSorted(s, sorted) ==
  IF sorted = <<>> THEN <<s>>
  ELSE IF StrLess(s, Head(sorted)) THEN <<s>> \o sorted
  ELSE <<Head(sorted)>> \o InsertSorted(s, Tail(sorted))

RECURSIVE SortStrings(_)
\* Array.prototype.sort() on an array of strings.
SortStrings(seq) ==
  IF seq = <<>> THEN <<>>
  ELSE InsertSorted(seq[Len(seq)], SortStrings(SubSeq(seq, 1, Len(seq) - 1)))

RECURSIVE Join(_, _)
\* Array.prototype.join(sep) on an array of strings.
Join(seq, sep) ==
  IF seq = <<>> THEN <<>>
  ELSE IF Len(seq) = 1 THEN seq[1]
  ELSE seq[1] \o sep \o Join(Tail(seq), sep)

Digit(d) == <<"0", "1", "2", "3", "4", "5", "6", "7", "8", "9">>[d + 1]

RECURSIVE Decimal(_)
\* The decimal rendering of an integer (template literal, String(n), JSON).
Decimal(n) ==
  IF n < 0 THEN <<"-">> \o Decimal(0 - n)
  ELSE IF n < 10 THEN <<Digit(n)>>
  ELSE Decimal(n \div 10) \o <<Digit(n % 10)>>

RECURSIVE Dedupe(_)
\* Array.from(new Set(seq)): first occurrences, in order.
Dedupe(seq) ==
  IF seq = <<>> THEN <<>>
  ELSE LET init == Dedupe(SubSeq(seq, 1, Len(seq) - 1))
           last == seq[Len(seq)]
       IN IF \E i \in 1..Len(init) : init[i] = last THEN init
          ELSE Append(init, last)

Range(seq) == {seq[i] : i \in 1..Len(seq)}

(***************************************************************************)
(* JSON values as JavaScript sees them after JSON.parse.                    *)
(***************************************************************************)
JUndef == [t |-> "undefined", v |-> <<>>]
JNull == [t |-> "null", v |-> <<>>]
JNaN == [t |-> "nan", v |-> <<>>]
JBool(b) == [t |-> "bool", v |-> b]
JNum(n) == [t |-> "num", v |-> n]
\* A finite number that is not an integer: whole + tenths / 10.
JFrac(whole, tenths) == [t |-> "frac", v |-> <<whole, tenths>>]
JStr(s) == [t |-> "str", v |-> s]
JArr(elems) == [t |-> "arr", v |-> elems]
\* entries: a sequence of <<key, value>> with distinct keys, in insertion order.
JObj(entries) == [t |-> "obj", v |-> entries]

\* !!value
Truthy(val) ==
  CASE val.t = "undefined" -> FALSE
    [] val.t = "null" -> FALSE
    [] val.t = "nan" -> FALSE
    [] val.t = "bool" -> val.v
    [] val.t = "num" -> val.v # 0
    [] val.t = "str" -> val.v # <<>>
    [] OTHER -> TRUE

\* typeof value === 'object'
TypeofObject(val) == val.t \in {"obj", "arr", "null"}

IsArray(val) == val.t = "arr"

Nullish(val) == val.t \in {"undefined", "null"}

\* a ?? b
Coalesce(a, b) == IF Nullish(a) THEN b ELSE a

\* value[key] for a string key that is not an array index or "length".
Get(val, key) ==
  IF val.t = "obj" /\ \E i \in 1..Len(val.v) : val.v[i][1] = key
  THEN val.v[CHOOSE i \in 1..Len(val.v) : val.v[i][1] = key][2]
  ELSE JUndef

ObjectObject ==
  <<"[", "o", "b", "j", "e", "c", "t", " ", "O", "b", "j", "e", "c", "t", "]">>

RECURSIVE ToStr(_)
\* String(value)
ToStr(val) ==
  CASE val.t = "str" -> val.v
    [] val.t = "num" -> Decimal(val.v)
    [] val.t = "frac" -> Decimal(val.v[1]) \o <<".">> \o Decimal(val.v[2])
    [] val.t = "nan" -> <<"N", "a", "N">>
    [] val.t = "bool" -> IF val.v THEN <<"t", "r", "u", "e">>
                                  ELSE <<"f", "a", "l", "s", "e">>
    [] val.t = "null" -> <<"n", "u", "l", "l">>
    [] val.t = "undefined" -> <<"u", "n", "d", "e", "f", "i", "n", "e", "d">>
    [] val.t = "arr" ->
         Join([i \in 1..Len(val.v) |->
                 IF Nullish(val.v[i]) THEN <<>> ELSE ToStr(val.v[i])], <<",">>)
    [] val.t = "obj" -> ObjectObject

IsDigit(c) == c \in {"0", "1", "2", "3", "4", "5", "6", "7", "8", "9"}

DigitValue(c) == CHOOSE d \in 0..9 : Digit(d) = c

RECURSIVE DigitsValue(_)
DigitsValue(s) ==
  IF s = <<>> THEN 0
  ELSE 10 * DigitsValue(SubSeq(s, 1, Len(s) - 1)) + DigitValue(s[Len(s)])

RECURSIVE TrimLeft(_)
TrimLeft(s) == IF s # <<>> /\ Head(s) = " " THEN TrimLeft(Tail(s)) ELSE s

RECURSIVE TrimRight(_)
TrimRight(s) ==
  IF s # <<>> /\ s[Len(s)] = " " THEN TrimRight(SubSeq(s, 1, Len(s) - 1)) ELSE s

\* String.prototype.trim()
Trim(s) == TrimRight(TrimLeft(s))

AllDigits(d) == d # <<>> /\ \A i \in 1..Len(d) : IsDigit(d[i])

\* The number an unsigned numeric literal of the model denotes: a run of
\* digits is that integer; digits ".", digits "." digit and "." digit are
\* decimal literals; anything else is NaN.  (Exponents, hexadecimal
\* literals, "Infinity" and longer fractions are not strings of the model.)
MagnitudeToNumber(mag) ==
  IF AllDigits(mag) THEN JNum(DigitsValue(mag))
  ELSE IF Len(mag) >= 2 /\ mag[Len(mag)] = "." /\ AllDigits(SubSeq(mag, 1, Len(mag) - 1))
       THEN JNum(DigitsValue(SubSeq(mag, 1, Len(mag) - 1)))
  ELSE IF /\ Len(mag) >= 2
          /\ mag[Len(mag) - 1] = "."
          /\ \A i \in 1..(Len(mag) - 2) : IsDigit(mag[i])
          /\ IsDigit(mag[Len(mag)])
       THEN IF mag[Len(mag)] = "0"
            THEN JNum(DigitsValue(SubSeq(mag, 1, Len(mag) - 2)))
            ELSE JFrac(DigitsValue(SubSeq(mag, 1, Len(mag) - 2)),
                       DigitValue(mag[Len(mag)]))
  ELSE JNaN

\* -num
Negated(num) ==
  CASE num.t = "num" -> JNum(0 - num.v)
    [] num.t = "frac" -> JFrac(0 - num.v[1], 0 - num.v[2])
    [] OTHER -> num

\* Number(string) once the surrounding blanks are dropped: the empty string
\* is 0, a leading "-" negates, a leading "+" is dropped.
TrimmedToNumber(body) ==
  IF body = <<>> THEN JNum(0)
  ELSE IF Head(body) = "-" THEN Negated(MagnitudeToNumber(Tail(body)))
  ELSE IF Head(body) = "+" THEN MagnitudeToNumber(Tail(body))
  ELSE MagnitudeToNumber(body)

\* Number(string) for the strings of the model.
StringToNumber(s) == TrimmedToNumber(Trim(s))

\* Number(value)
ToNumber(val) ==
  CASE val.t \in {"num", "frac", "nan"} -> val
    [] val.t = "str" -> StringToNumber(val.v)
    [] val.t = "bool" -> JNum(IF val.v THEN 1 ELSE 0)
    [] val.t = "null" -> JNum(0)
    [] val.t = "undefined" -> JNaN
    [] val.t = "arr" -> StringToNumber(ToStr(val))
    [] val.t = "obj" -> JNaN

\* Number.isFinite(num) for a number of the model.
IsFinite(num) == num.t \in {"num", "frac"}

\* Number.isInteger(num)
IsInteger(num) == num.t = "num"

\* num < bound for a finite number of the model and an integer bound.
NumLess(num, bound) ==
  IF num.t = "num" THEN num.v < bound
  ELSE 10 * num.v[1] + num.v[2] < 10 * bound

\* num > bound
NumGreater(num, bound) ==
  IF num.t = "num" THEN num.v > bound
  ELSE 10 * num.v[1] + num.v[2] > 10 * bound

(***************************************************************************)
(* Errors and the option validator (AlgorithmBase.parseOptions).            *)
(***************************************************************************)
\* An error object: its class, its message template and what the template
\* is filled with (an option label, an edge index).
ErrorOf(class, message, label, index) ==
  [class |-> class, message |-> message, label |-> label, index |-> index]

\* new ClientError(message): statusCode 400.
ClientError(message) == ErrorOf("ClientError", message, "", 0 - 1)

\* new ClientError(`Option "${def.label}" ...`)
OptionError(label, message) == ErrorOf("ClientError", message, label, 0 - 1)

\* new ClientError(`Edge at index ${index} ...`)
EdgeError(index) ==
  ErrorOf("ClientError", "Edge at index must be an array like [from, to] or an object with from/to keys.", "", index)

\* new Error(message)
PlainError(message) == ErrorOf("Error", message, "", 0 - 1)

Failed(error) == [ok |-> FALSE, value |-> JUndef, error |-> error]

Succeeded(value) == [ok |-> TRUE, value |-> value, error |-> ClientError("")]

K_iterations == <<"i", "t", "e", "r", "a", "t", "i", "o", "n", "s">>

DefaultIterations == 40
MinIterations == 1
MaxIterationsOption == 1000

\* KargerMinCutAlgorithm.optionDefinitions
KargerOptionDefinitions ==
  << [key |-> K_iterations, label |-> "Iterations", type |-> "integer",
      defaultValue |-> JNum(DefaultIterations),
      hasMinimum |-> TRUE, minimum |-> MinIterations,
      hasMaximum |-> TRUE, maximum |-> MaxIterationsOption] >>

\* The range checks with the bounds themselves refused.
RangeChecked_Exclusive(def, num) ==
  IF def.hasMinimum /\ ~NumGreater(num, def.minimum)
  THEN Failed(OptionError(def.label, "must be >= minimum"))
  ELSE IF def.hasMaximum /\ ~NumLess(num, def.maximum)
  THEN Failed(OptionError(def.label, "must be <= maximum"))
  ELSE Succeeded(num)

\* The range checks of an integer or number option (lines 99 to 105 and
\* 113 to 119): the number, or the ClientError thrown.
RangeChecked(def, num) ==
  IF def.hasMinimum /\ NumLess(num, def.minimum)
  THEN Failed(OptionError(def.label, "must be >= minimum"))
  ELSE IF def.hasMaximum /\ NumGreater(num, def.maximum)
  THEN Failed(OptionError(def.label, "must be <= maximum"))
  ELSE Succeeded(num)

\* case 'integer', num being Number(value)
IntegerOption(def, num) ==
  IF ~IsFinite(num) \/ ~IsInteger(num)
  THEN Failed(OptionError(def.label, "must be an integer value"))
  ELSE RangeChecked(def, num)

\* case 'number', num being Number(value)
NumberOption(def, num) ==
  IF ~IsFinite(num)
  THEN Failed(OptionError(def.label, "must be a numeric value"))
  ELSE RangeChecked(def, num)

\* value.trim().toLowerCase() read as a boolean
BooleanWord(def, normalized) ==
  IF normalized \in {<<"t", "r", "u", "e">>, <<"1">>} THEN Succeeded(JBool(TRUE))
  ELSE IF normalized \in {<<"f", "a", "l", "s", "e">>, <<"0">>}
  THEN Succeeded(JBool(FALSE))
  ELSE Failed(OptionError(def.label, "must be a boolean"))

\* The lower-case form of a character of the model's alphabet.
LowerChar(c) ==
  CASE c = "A" -> "a" [] c = "B" -> "b" [] c = "C" -> "c" [] c = "D" -> "d"
    [] c = "N" -> "n" [] c = "O" -> "o" [] c = "X" -> "x" [] OTHER -> c

\* String.prototype.toLowerCase()
ToLowerCase(s) == [i \in 1..Len(s) |-> LowerChar(s[i])]

\* case 'boolean'
BooleanOption(def, value) ==
  IF value.t = "bool" THEN Succeeded(value)
  ELSE IF value.t = "str" THEN BooleanWord(def, ToLowerCase(Trim(value.v)))
  ELSE IF value.t \in {"num", "frac"} THEN Succeeded(JBool(value # JNum(0)))
  ELSE Failed(OptionError(def.label, "must be a boolean"))

\* The switch of parseOptions for a supplied value: the coerced value or the
\* ClientError thrown.
ParseOptionValue(def, value) ==
  CASE def.type = "integer" -> IntegerOption(def, ToNumber(value))
    [] def.type = "number" -> NumberOption(def, ToNumber(value))
    [] def.type = "boolean" -> BooleanOption(def, value)
    [] OTHER -> Succeeded(JStr(ToStr(value)))

\* The loop of parseOptions without the default for a missing value.
OptionOutcome_NoDefault(def, value) == ParseOptionValue(def, value)

\* What the loop of parseOptions makes of the value supplied for def: the
\* default when it is undefined, null or the empty string.
OptionOutcome(def, value) ==
  IF value.t = "undefined" \/ value.t = "null" \/ value = JStr(<<>>)
  THEN Succeeded(def.defaultValue)
  ELSE ParseOptionValue(def, value)

RECURSIVE ParseOptionsFrom(_, _, _, _)
RECURSIVE ParseOptionsStep(_, _, _, _, _)
\* The loop of parseOptions from definition number i on, `parsed` holding
\* the entries written so far.
ParseOptionsFrom(defs, provided, i, parsed) ==
  IF i > Len(defs) THEN Succeeded(JObj(parsed))
  ELSE ParseOptionsStep(defs, provided, i, parsed,
                        OptionOutcome(defs[i], Get(provided, defs[i].key)))

\* The pass of the loop for definition i with outcome r: the entry is
\* written, or the error leaves the loop.
ParseOptionsStep(defs, provided, i, parsed, r) ==
  IF r.ok
  THEN ParseOptionsFrom(defs, provided, i + 1, Append(parsed, <<defs[i].key, r.value>>))
  ELSE r

\* AlgorithmBase.parseOptions(raw) for the option definitions defs.
parseOptions(defs, raw) ==
  ParseOptionsFrom(defs,
                   IF Truthy(raw) /\ TypeofObject(raw) THEN raw ELSE JObj(<<>>),
                   1, <<>>)

(***************************************************************************)
(* The minimum-cut algorithm: input parsing.                                *)
(***************************************************************************)
K_edges == <<"e", "d", "g", "e", "s">>
K_vertices == <<"v", "e", "r", "t", "i", "c", "e", "s">>
K_from == <<"f", "r", "o", "m">>
K_source == <<"s", "o", "u", "r", "c", "e">>
K_u == <<"u">>
K_to == <<"t", "o">>
K_target == <<"t", "a", "r", "g", "e", "t">>
K_v == <<"v">>

\* The end of the callback of rawEdges.map for an edge given as an object.
EndpointsOf(from, to, index) ==
  IF from.t # "undefined" /\ to.t # "undefined"
  THEN Succeeded(<<ToStr(from), ToStr(to)>>)
  ELSE Failed(EdgeError(index))

\* The callback of rawEdges.map in parseInput: the pair of endpoint strings
\* of one raw edge, or the ClientError thrown for it.
ParseEdge(edge, index) ==
  IF IsArray(edge) /\ Len(edge.v) = 2
  THEN Succeeded(<<ToStr(edge.v[1]), ToStr(edge.v[2])>>)
  ELSE IF Truthy(edge) /\ TypeofObject(edge)
  THEN EndpointsOf(Coalesce(Coalesce(Get(edge, K_from), Get(edge, K_source)),
                            Get(edge, K_u)),
                   Coalesce(Coalesce(Get(edge, K_to), Get(edge, K_target)),
                            Get(edge, K_v)),
                   index)
  ELSE Failed(EdgeError(index))

RECURSIVE FlatEndpoints(_)
\* edges.flatMap(([from, to]) => [from, to])
FlatEndpoints(edges) ==
  IF edges = <<>> THEN <<>>
  ELSE <<edges[1][1], edges[1][2]>> \o FlatEndpoints(Tail(edges))

\* Lines 243 to 245 of parseInput.
ExplicitVertices(rawVertices) ==
  IF IsArray(rawVertices)
  THEN [i \in 1..Len(rawVertices.v) |-> ToStr(rawVertices.v[i])]
  ELSE <<>>

\* Lines 252 to 256 of parseInput.
CheckedInput(vertices, edges) ==
  IF Len(vertices) < 2
  THEN Failed(ClientError("The graph must contain at least two vertices."))
  ELSE Succeeded([vertices |-> vertices, edges |-> edges])

\* The vertex list taking the endpoints of the edges before the explicit
\* vertices.
InputOf_EdgesFirst(explicitVertices, edges) ==
  CheckedInput(Dedupe(FlatEndpoints(edges) \o explicitVertices), edges)

\* Lines 243 to 256 of parseInput.
InputOf(explicitVertices, edges) ==
  CheckedInput(Dedupe(explicitVertices \o FlatEndpoints(edges)), edges)

\* parseInput once every raw edge has been through ParseEdge: the error of
\* the first edge that failed, or lines 243 to 256.
InputFromEdges(raw, mapped) ==
  IF \E i \in 1..Len(mapped) : ~mapped[i].ok
  THEN mapped[CHOOSE i \in 1..Len(mapped) :
                /\ ~mapped[i].ok
                /\ \A j \in 1..(i - 1) : mapped[j].ok]
  ELSE InputOf(ExplicitVertices(Get(raw, K_vertices)),
               [i \in 1..Len(mapped) |-> mapped[i].value])

\* Lines 223 to 241 of parseInput.
ParseEdgesOf(raw, rawEdges) ==
  IF ~IsArray(rawEdges) \/ Len(rawEdges.v) = 0
  THEN Failed(ClientError("Input must include a non-empty \"edges\" array."))
  ELSE InputFromEdges(raw, [i \in 1..Len(rawEdges.v) |->
                              ParseEdge(rawEdges.v[i], i - 1)])

\* KargerMinCutAlgorithm.parseInput(raw): value is the KargerInput
\* [vertices, edges].
parseInput(raw) ==
  IF ~Truthy(raw) \/ ~TypeofObject(raw)
  THEN Failed(ClientError("Input must be a JSON object with an \"edges\" property."))
  ELSE ParseEdgesOf(raw, Get(raw, K_edges))

(***************************************************************************)
(* The minimum-cut algorithm: one contraction run.                          *)
(* components is the Map of singleRun as the sequence of its entries        *)
(* [label, members] in insertion order; members is the Set as the sequence  *)
(* of its elements in insertion order.                                      *)
(***************************************************************************)
\* components.has(label)
HasLabel(components, label) ==
  \E i \in 1..Len(components) : components[i].label = label

\* components.get(label), for a label the map has
MembersOf(components, label) ==
  components[CHOOSE i \in 1..Len(components) : components[i].label = label].members

\* components.delete(label)
DeleteLabel(components, label) ==
  SelectSeq(components, LAMBDA c : c.label # label)

\* components.set(label, members): an existing key keeps its place and
\* takes the new value, a new key goes last.
SetLabel(components, label, members) ==
  IF HasLabel(components, label)
  THEN [i \in 1..Len(components) |->
          IF components[i].label = label
          THEN [label |-> label, members |-> members]
          ELSE components[i]]
  ELSE Append(components, [label |-> label, members |-> members])

\* KargerMinCutAlgorithm.findRepresentative
findRepresentative(label, components) ==
  IF HasLabel(components, label) THEN Succeeded(label)
  ELSE LET holding == {i \in 1..Len(components) :
                          label \in Range(components[i].members)}
       IN IF holding # {}
          THEN Succeeded(components[CHOOSE i \in holding :
                                       \A j \in holding : i <= j].label)
          ELSE Failed(PlainError("Vertex is missing from the component map"))

\* The label mergeComponents gives the merged group.
MergedLabel(mergedSet, step) ==
  Join(SortStrings(mergedSet), <<"|">>) \o <<"#">> \o Decimal(step)

\* KargerMinCutAlgorithm.mergeComponents: the new map and the merged label.
mergeComponents(from, to, components, step) ==
  IF ~HasLabel(components, from) \/ ~HasLabel(components, to)
  THEN Failed(PlainError("Attempted to merge components that do not exist"))
  ELSE LET fromSet == MembersOf(components, from)
           toSet == MembersOf(components, to)
           rest == DeleteLabel(DeleteLabel(components, from), to)
           mergedSet == Dedupe(fromSet \o toSet)
           mergedLabel == MergedLabel(mergedSet, step)
       IN Succeeded([components |-> SetLabel(rest, mergedLabel, mergedSet),
                     mergedLabel |-> mergedLabel])

\* The state of singleRun before its loop (lines 303 to 310).
RunStart(input) ==
  [edges |-> input.edges,
   components |-> LET keys == Dedupe(input.vertices)
                  IN [i \in 1..Len(keys) |->
                        [label |-> keys[i], members |-> <<keys[i]>>]],
   step |-> 0,
   ok |-> TRUE,
   error |-> ClientError("")]

\* The loop condition of singleRun.
LoopGuard(run) == run.ok /\ Len(run.components) > 2 /\ Len(run.edges) > 0

\* A splice that removes nothing.
Splice_Nothing(edges, randomIndex) == edges

\* edges.splice(randomIndex, 1), randomIndex counted from 1 here
Splice(edges, randomIndex) ==
  SubSeq(edges, 1, randomIndex - 1) \o SubSeq(edges, randomIndex + 1, Len(edges))

\* One pass of the loop of singleRun with Math.random() choosing the edge
\* at randomIndex (1..edges.length).
ContractStep(run, randomIndex) ==
  LET step == run.step + 1
      rawFrom == run.edges[randomIndex][1]
      rawTo == run.edges[randomIndex][2]
      from == findRepresentative(rawFrom, run.components)
      to == findRepresentative(rawTo, run.components)
  IN IF ~from.ok THEN [run EXCEPT !.step = step, !.ok = FALSE, !.error = from.error]
     ELSE IF ~to.ok THEN [run EXCEPT !.step = step, !.ok = FALSE, !.error = to.error]
     ELSE IF from.value = to.value
     THEN [run EXCEPT !.step = step, !.edges = Splice(run.edges, randomIndex)]
     ELSE LET merged == mergeComponents(from.value, to.value, run.components, step)
          IN IF ~merged.ok
             THEN [run EXCEPT !.step = step, !.ok = FALSE, !.error = merged.error]
             ELSE LET relabel(a) ==
                        IF a = from.value \/ a = to.value
                        THEN merged.value.mergedLabel ELSE a
                      rewritten == [i \in 1..Len(run.edges) |->
                                      <<relabel(run.edges[i][1]),
                                        relabel(run.edges[i][2])>>]
                  IN [run EXCEPT
                        !.step = step,
                        !.components = merged.value.components,
                        !.edges = SelectSeq(rewritten, LAMBDA e : e[1] # e[2])]

\* computeCutSize counting only the edges that leave partA for partB.
computeCutSize_OneWay(partA, partB, edges) ==
  LET setA == Range(partA)
      setB == Range(partB)
  IN Cardinality({i \in 1..Len(edges) :
                    edges[i][1] \in setA /\ edges[i][2] \in setB})

\* KargerMinCutAlgorithm.computeCutSize
computeCutSize(partA, partB, edges) ==
  LET setA == Range(partA)
      setB == Range(partB)
      crosses(e) == LET inA == e[1] \in setA
                        inB == e[1] \in setB
                        outA == e[2] \in setA
                        outB == e[2] \in setB
                    IN (inA /\ outB) \/ (inB /\ outA)
  IN Cardinality({i \in 1..Len(edges) : crosses(edges[i])})

RECURSIVE Flat(_)
\* Array.prototype.flat() on an array of arrays
Flat(arrays) ==
  IF arrays = <<>> THEN <<>> ELSE Head(arrays) \o Flat(Tail(arrays))

\* The end of singleRun reporting only the first remaining group whenever
\* the number of groups is not two.
RunResult_FirstGroupOnly(run, input) ==
  LET remaining == [i \in 1..Len(run.components) |-> run.components[i].members]
  IN IF Len(remaining) # 2
     THEN [cut |-> 0, partitions |-> <<remaining[1], <<>>>>]
     ELSE [cut |-> computeCutSize(remaining[1], remaining[2], input.edges),
           partitions |-> <<remaining[1], remaining[2]>>]

\* What singleRun returns once its loop has ended (lines 334 to 348).
RunResult(run, input) ==
  LET remaining == [i \in 1..Len(run.components) |-> run.components[i].members]
  IN IF Len(remaining) # 2
     THEN IF Len(remaining) = 1
          THEN [cut |-> 0, partitions |-> <<remaining[1], <<>>>>]
          ELSE [cut |-> 0, partitions |-> <<Flat(remaining), <<>>>>]
     ELSE [cut |-> computeCutSize(remaining[1], remaining[2], input.edges),
           partitions |-> <<remaining[1], remaining[2]>>]

RECURSIVE RunOutcomesFrom(_, _)
\* Every outcome the rest of singleRun can have from the loop state run,
\* over all choices of Math.random().
RunOutcomesFrom(run, input) ==
  IF ~run.ok THEN {Failed(run.error)}
  ELSE IF LoopGuard(run)
  THEN UNION {RunOutcomesFrom(ContractStep(run, randomIndex), input) :
                randomIndex \in 1..Len(run.edges)}
  ELSE {Succeeded(RunResult(run, input))}

\* KargerMinCutAlgorithm.singleRun: the set of its possible outcomes.
singleRun(input) == RunOutcomesFrom(RunStart(input), input)

(***************************************************************************)
(* The minimum-cut algorithm: execute.                                      *)
(***************************************************************************)
Infinity == [t |-> "inf", v |-> <<>>]

\* KargerMinCutAlgorithm.resolveIterations
resolveIterations(input, options) ==
  LET provided == Get(options, K_iterations)
      n == Len(input.vertices)
      heuristic == IF n * n > MaxIterationsOption THEN MaxIterationsOption
                   ELSE IF n * n < 1 THEN 1 ELSE n * n
  IN IF provided.t = "num" /\ provided.v >= 1 THEN provided.v ELSE heuristic

\* The locals of execute before its loop (lines 261 to 264).
ExecuteStart ==
  [bestCut |-> Infinity, bestPartitions |-> << <<>>, <<>> >>,
   bestIteration |-> 0, runHistory |-> <<>>]

\* The loop body keeping the later of two runs with equal cuts.
ExecuteRecord_LastWins(acc, iteration, r) ==
  LET logged == [acc EXCEPT !.runHistory =
                   Append(@, [iteration |-> iteration, cut |-> r.cut])]
  IN IF acc.bestCut.t = "inf" \/ r.cut <= acc.bestCut.v
     THEN [logged EXCEPT !.bestCut = JNum(r.cut),
                         !.bestPartitions = r.partitions,
                         !.bestIteration = iteration]
     ELSE logged

\* The body of the loop of execute for the run result r of `iteration`.
ExecuteRecord(acc, iteration, r) ==
  LET logged == [acc EXCEPT !.runHistory =
                   Append(@, [iteration |-> iteration, cut |-> r.cut])]
  IN IF acc.bestCut.t = "inf" \/ r.cut < acc.bestCut.v
     THEN [logged EXCEPT !.bestCut = JNum(r.cut),
                         !.bestPartitions = r.partitions,
                         !.bestIteration = iteration]
     ELSE logged

\* The AlgorithmRunResult execute returns (lines 276 to 289).
ExecuteResult(acc, iterations) ==
  [output |-> [minCut |-> acc.bestCut, partitions |-> acc.bestPartitions],
   summary |-> [cut |-> acc.bestCut, iterations |-> iterations,
                plural |-> iterations # 1],
   diagnostics |-> [iterations |-> iterations,
                    bestIteration |-> acc.bestIteration,
                    runHistory |-> acc.runHistory]]

RECURSIVE ExecuteFrom(_, _, _, _)
\* Every outcome of the loop of execute from `iteration` on, runs being the
\* possible outcomes of one singleRun.
ExecuteFrom(acc, iteration, iterations, runs) ==
  IF iteration > iterations THEN {Succeeded(ExecuteResult(acc, iterations))}
  ELSE {Failed(r.error) : r \in {f \in runs : ~f.ok}}
       \cup UNION {ExecuteFrom(next, iteration + 1, iterations, runs) :
                     next \in {ExecuteRecord(acc, iteration, r.value) :
                                 r \in {f \in runs : f.ok}}}

\* KargerMinCutAlgorithm.execute: the set of its possible outcomes, a
\* result or the error it rejects with.
execute(input, options) ==
  ExecuteFrom(ExecuteStart, 1, resolveIterations(input, options), singleRun(input))

\* prepare with the options validated before the input is parsed.
Prepared_OptionsFirst(input, options) ==
  IF ~options.ok THEN options
  ELSE IF ~input.ok THEN input
  ELSE Succeeded([input |-> input.value, options |-> options.value])

\* What prepare returns or throws, given the outcomes of parseInput and of
\* parseOptions: the input is parsed first.
Prepared(input, options) ==
  IF ~input.ok THEN input
  ELSE IF ~options.ok THEN options
  ELSE Succeeded([input |-> input.value, options |-> options.value])

\* AlgorithmBase.prepare for the minimum-cut algorithm; value is
\* [input, options].
prepare(rawInput, rawOptions) ==
  Prepared(parseInput(rawInput), parseOptions(KargerOptionDefinitions, rawOptions))

(***************************************************************************)
(* The canonical encoder and the cache key.                                 *)
(***************************************************************************)
IsCombiningMark(c) == c = "U+0301"

RECURSIVE NFD(_)
\* Canonical decomposition: U+00E9 is e followed by U+0301.
NFD(s) ==
  IF s = <<>> THEN <<>>
  ELSE (IF Head(s) = "U+00E9" THEN <<"e", "U+0301">> ELSE <<Head(s)>>)
       \o NFD(Tail(s))

RECURSIVE WeightsLess(_, _)
\* Lexicographic order on sequences of collation weights.
WeightsLess(a, b) ==
  IF b = <<>> THEN FALSE
  ELSE IF a = <<>> THEN TRUE
  ELSE IF Head(a) # Head(b) THEN Head(a) < Head(b)
  ELSE WeightsLess(Tail(a), Tail(b))

\* The collation weights of a string at one level: the letters without
\* case and accent (1), the accents (2), the case (3).
CollationWeights(s, level) ==
  LET d == NFD(s)
      bases == SelectSeq(d, LAMBDA c : ~IsCombiningMark(c))
  IN CASE level = 1 -> [i \in 1..Len(bases) |-> CodeUnit(LowerChar(bases[i]))]
       [] level = 2 -> [i \in 1..Len(d) |-> IF IsCombiningMark(d[i]) THEN 1 ELSE 0]
       [] level = 3 -> [i \in 1..Len(bases) |->
                          IF LowerChar(bases[i]) = bases[i] THEN 0 ELSE 1]

\* keyA.localeCompare(keyB) in the default locale: negative, zero or
\* positive.  Strings are compared by letters first, then accents, then
\* case; canonically equivalent strings compare equal.
localeCompare(keyA, keyB) ==
  LET differing == {l \in 1..3 : CollationWeights(keyA, l) # CollationWeights(keyB, l)}
  IN IF differing = {} THEN 0
     ELSE LET l == CHOOSE l \in differing : \A m \in differing : l <= m
          IN IF WeightsLess(CollationWeights(keyA, l), CollationWeights(keyB, l))
             THEN 0 - 1 ELSE 1

RECURSIVE InsertEntry(_, _)
\* Puts entry e after every entry of sorted that does not compare above it.
InsertEntry(e, sorted) ==
  IF sorted = <<>> THEN <<e>>
  ELSE IF localeCompare(e[1], Head(sorted)[1]) < 0 THEN <<e>> \o sorted
  ELSE <<Head(sorted)>> \o InsertEntry(e, Tail(sorted))

RECURSIVE SortEntries(_)
\* Object.entries(value).sort(([keyA], [keyB]) => keyA.localeCompare(keyB)):
\* the sort is stable, entries whose keys compare equal keep their order.
SortEntries(entries) ==
  IF entries = <<>> THEN <<>>
  ELSE InsertEntry(entries[Len(entries)],
                   SortEntries(SubSeq(entries, 1, Len(entries) - 1)))

RECURSIVE EscapeChars(_)
EscapeChars(s) ==
  IF s = <<>> THEN <<>>
  ELSE (IF Head(s) \in {"\"", "\\"} THEN <<"\\", Head(s)>> ELSE <<Head(s)>>)
       \o EscapeChars(Tail(s))

\* JSON.stringify of a string that leaves quotes and backslashes as they are.
JsonQuote_NoEscape(s) == <<"\"">> \o s \o <<"\"">>

\* JSON.stringify(string)
JsonQuote(s) == <<"\"">> \o EscapeChars(s) \o <<"\"">>

\* JSON.stringify(value) for a value that is not an object.
JsonScalar(val) ==
  CASE val.t = "str" -> JsonQuote(val.v)
    [] val.t = "num" -> Decimal(val.v)
    [] val.t = "frac" -> ToStr(val)
    [] val.t = "bool" -> ToStr(val)
    [] OTHER -> <<"n", "u", "l", "l">>

RECURSIVE stableStringify(_)
\* stableStringify(value)
stableStringify(val) ==
  IF val.t = "null" \/ val.t = "undefined" THEN <<"n", "u", "l", "l">>
  ELSE IF ~TypeofObject(val) THEN JsonScalar(val)
  ELSE IF IsArray(val)
  THEN <<"[">> \o Join([i \in 1..Len(val.v) |-> stableStringify(val.v[i])], <<",">>)
       \o <<"]">>
  ELSE LET entries == SortEntries(val.v)
       IN <<"{">>
          \o Join([i \in 1..Len(entries) |->
                     JsonQuote(entries[i][1]) \o <<":">>
                     \o stableStringify(entries[i][2])], <<",">>)
          \o <<"}">>

\* The KargerInput { vertices, edges } as the value stableStringify is given.
InputValue(input) ==
  JObj(<< <<K_vertices, JArr([i \in 1..Len(input.vertices) |-> JStr(input.vertices[i])])>>,
          <<K_edges, JArr([i \in 1..Len(input.edges) |->
                             JArr(<<JStr(input.edges[i][1]), JStr(input.edges[i][2])>>)])>> >>)

K_algorithmId == <<"a", "l", "g", "o", "r", "i", "t", "h", "m", "I", "d">>
K_input == <<"i", "n", "p", "u", "t">>
K_options == <<"o", "p", "t", "i", "o", "n", "s">>

\* createHash('sha256').update(text).digest('hex'), taken to be injective:
\* the digest stands for the text it was computed from.
Sha256Hex(text) == text

\* createCacheKey without the options in the hashed payload.
createCacheKey_NoOptions(algorithmId, input, options) ==
  Sha256Hex(<<"{">> \o JsonQuote(K_algorithmId) \o <<":">> \o JsonQuote(algorithmId)
            \o <<",">> \o JsonQuote(K_input) \o <<":">>
            \o JsonQuote(stableStringify(InputValue(input)))
            \o <<"}">>)

\* createCacheKey(algorithmId, input, options): JSON.stringify of the
\* payload { algorithmId, input, options } in that order, hashed.
createCacheKey(algorithmId, input, options) ==
  Sha256Hex(<<"{">> \o JsonQuote(K_algorithmId) \o <<":">> \o JsonQuote(algorithmId)
            \o <<",">> \o JsonQuote(K_input) \o <<":">>
            \o JsonQuote(stableStringify(InputValue(input)))
            \o <<",">> \o JsonQuote(K_options) \o <<":">>
            \o JsonQuote(stableStringify(options))
            \o <<"}">>)

(***************************************************************************)
(* The inputs the algorithm is run on.                                      *)
(***************************************************************************)
A == <<"A">>
B == <<"B">>
C == <<"C">>
\* A vertex may carry any name, also one that reads like a merged label.
AB1 == <<"A", "|", "B", "#", "1">>

VertexNames == {A, B, AB1}

\* The edges of the raw inputs: a pair of names, a self-loop included, each
\* unordered pair in one direction (the algorithm treats an edge and its
\* reverse alike).
EdgePairs ==
  {p \in VertexNames \X VertexNames : ~StrLess(p[2], p[1])} \cup {<<AB1, C>>}

\* The `vertices` arrays of the raw inputs: absent, or listing vertices
\* that no edge need mention.
ExplicitVertexChoices == {<<>>, <<B>>, <<B, C>>}

RECURSIVE SeqsUpTo(_, _)
\* The sequences over S of length 0..n
SeqsUpTo(S, n) ==
  IF n = 0 THEN {<<>>}
  ELSE LET shorter == SeqsUpTo(S, n - 1)
       IN shorter \cup {Append(q, e) : q \in {r \in shorter : Len(r) = n - 1}, e \in S}

\* The raw input { vertices?, edges } with edges as [from, to] pairs.
RawGraph(explicit, pairs) ==
  JObj((IF explicit = <<>> THEN <<>>
        ELSE << <<K_vertices, JArr([i \in 1..Len(explicit) |-> JStr(explicit[i])])>> >>)
       \o << <<K_edges, JArr([i \in 1..Len(pairs) |->
                                JArr(<<JStr(pairs[i][1]), JStr(pairs[i][2])>>)])>> >>)

\* The raw options { iterations: n }
RawIterations(n) == JObj(<< <<K_iterations, JNum(n)>> >>)

(***************************************************************************)
(* The values the canonical encoder is applied to.                          *)
(***************************************************************************)
MaxKeys == 2

\* Two of the keys are canonically equivalent: U+00E9 and e, U+0301.
EncodeKeys == {<<"a">>, <<"b">>, <<"U+00E9">>, <<"e", "U+0301">>}

EncodeScalars == {JNum(1), JStr(<<"b">>)}

DistinctKeys(entries) ==
  \A i, j \in 1..Len(entries) : entries[i][1] = entries[j][1] => i = j

\* The objects with 1..MaxKeys scalar entries, in every insertion order.
FlatObjects ==
  {JObj(es) : es \in {q \in SeqsUpTo(EncodeKeys \X EncodeScalars, MaxKeys) :
                        q # <<>> /\ DistinctKeys(q)}}

EncodeValues ==
  FlatObjects
  \cup {JObj(<< <<<<"a">>, o>>, <<<<"b">>, JNum(1)>> >>) : o \in FlatObjects}
  \cup {JArr(<<o, JStr(<<"a">>)>>) : o \in FlatObjects}
  \cup {JArr(<<x, y>>) : x \in EncodeScalars, y \in EncodeScalars}

IndexPermutations(n) == {f \in [1..n -> 1..n] : \A i, j \in 1..n : f[i] = f[j] => i = j}

RECURSIVE Reorderings(_)
\* The values equal to val up to the insertion order of the keys of its
\* mappings, at any depth; sequences keep their order.
Reorderings(val) ==
  IF val.t = "obj"
  THEN LET n == Len(val.v)
           inner == [i \in 1..n |-> Reorderings(val.v[i][2])]
           choices == {f \in [1..n -> UNION {inner[i] : i \in 1..n}] :
                         \A i \in 1..n : f[i] \in inner[i]}
       IN {JObj([i \in 1..n |-> <<val.v[p[i]][1], f[p[i]]>>]) :
             p \in IndexPermutations(n), f \in choices}
  ELSE IF val.t = "arr"
  THEN LET n == Len(val.v)
           inner == [i \in 1..n |-> Reorderings(val.v[i])]
       IN {JArr(f) : f \in {g \in [1..n -> UNION {inner[i] : i \in 1..n}] :
                              \A i \in 1..n : g[i] \in inner[i]}}
  ELSE {val}

(***************************************************************************)
(* The request payloads cache keys are derived for.                         *)
(***************************************************************************)
KargerId == <<"k", "a", "r", "g", "e", "r", "-", "m", "i", "n", "-", "c", "u", "t">>

D == <<"D">>
\* A vertex name holding quotes and a comma: C","D
CqD == <<"C", "\"", ",", "\"", "D">>

StrArr(names) == JArr([i \in 1..Len(names) |-> JStr(names[i])])
FromTo(from, to) == JObj(<< <<K_from, JStr(from)>>, <<K_to, JStr(to)>> >>)
SourceTarget(from, to) == JObj(<< <<K_source, JStr(from)>>, <<K_target, JStr(to)>> >>)

KeyInputs ==
  << RawGraph(<<>>, << <<A, B>>, <<B, C>> >>),
     JObj(<< <<K_edges, JArr(<<FromTo(A, B), SourceTarget(B, C)>>)>> >>),
     RawGraph(<<>>, << <<B, C>>, <<A, B>> >>),
     RawGraph(<<A, B, C>>, << <<A, B>>, <<B, C>> >>),
     RawGraph(<<C>>, << <<A, B>>, <<B, C>> >>),
     RawGraph(<<A, B, C, D>>, << <<A, B>> >>),
     RawGraph(<<A, B, CqD>>, << <<A, B>> >>) >>

KeyOptions ==
  << JUndef,
     RawIterations(DefaultIterations),
     JObj(<< <<K_iterations, JStr(<<"4", "0">>)>> >>),
     RawIterations(DefaultIterations + 1),
     JObj(<< <<<<"a">>, JNum(1)>>, <<K_iterations, JNum(DefaultIterations + 1)>> >>) >>

\* The parsed body of POST /run: { algorithmId, input, options? }
Payload(algorithmId, input, options) ==
  JObj(<< <<K_algorithmId, JStr(algorithmId)>>, <<K_input, input>> >>
       \o (IF options = JUndef THEN <<>> ELSE << <<K_options, options>> >>))

KeyPayloads ==
  {Payload(KargerId, KeyInputs[i], KeyOptions[j]) :
     i \in 1..Len(KeyInputs), j \in 1..Len(KeyOptions)}

(***************************************************************************)
(* The request handler: POST /run.                                          *)
(***************************************************************************)
NumRequests == 2

Requests == 1..NumRequests

\* The identifiers of the registered algorithms, in registration order
\* (lines 413 and 414).
registry == <<KargerId>>

\* An algorithm object, by the fields the registry and its callers read.
Algorithm(id, name) == [id |-> id, name |-> name]

\* new KargerMinCutAlgorithm(), lines 190 to 192.
KargerMinCut == Algorithm(KargerId, "Karger's Minimum Cut")

\* this.algorithms.has(id) on a Map kept in insertion order.
Has(map, id) == \E i \in 1..Len(map) : map[i].id = id

\* registry.get(id) finds an algorithm.
Registered(algorithmId) == \E i \in 1..Len(registry) : registry[i] = algorithmId

NoResult == [none |-> TRUE]

\* buildResponse(statusCode, JSON.stringify({ message }))
MessageResponse(statusCode, message) ==
  [statusCode |-> statusCode, message |-> message, algorithmId |-> <<>>,
   cached |-> FALSE, result |-> NoResult]

\* buildResponse(200, JSON.stringify({ algorithmId, cached, result }))
ResultResponse(algorithmId, cached, result) ==
  [statusCode |-> 200, message |-> "", algorithmId |-> algorithmId,
   cached |-> cached, result |-> result]

\* The catch of handler answering every error with 500.
ErrorResponse_Always500(error) == MessageResponse(500, error.message)

\* The catch of handler (lines 451 to 458).
ErrorResponse(error) ==
  IF error.class = "ClientError" THEN MessageResponse(400, error.message)
  ELSE IF error.class = "Error"
  THEN MessageResponse(500, error.message)
  ELSE MessageResponse(500, "Internal server error")

\* The body of the event: absent or empty, text that is not JSON, or the
\* text of the JSON value `json`.
EmptyBody == [kind |-> "empty", json |-> JUndef]
MalformedBody == [kind |-> "malformed", json |-> JUndef]
JsonBody(json) == [kind |-> "json", json |-> json]

\* parseJson(body)
parseJson(body) ==
  IF body.kind = "empty" THEN Failed(ClientError("Request body is required."))
  ELSE IF body.kind = "malformed"
  THEN Failed(ClientError("Request body contains invalid JSON."))
  ELSE IF ~Truthy(body.json) \/ ~TypeofObject(body.json)
  THEN Failed(ClientError("JSON payload must be an object."))
  ELSE Succeeded(body.json)

\* A request that ends before the GetCommand with the response given.
Ended(response) ==
  [ended |-> TRUE, response |-> response, algorithmId |-> <<>>,
   prepared |-> NoResult, cacheKey |-> <<>>]

\* Lines 487 to 489 with the catch of handler around them: prepare threw,
\* or the request goes on to the GetCommand with its cache key.
WithPrepared(algorithmId, prepared) ==
  IF ~prepared.ok THEN Ended(ErrorResponse(prepared.error))
  ELSE [ended |-> FALSE, response |-> MessageResponse(0, ""),
        algorithmId |-> algorithmId, prepared |-> prepared.value,
        cacheKey |-> createCacheKey(algorithmId, prepared.value.input,
                                    prepared.value.options)]

\* Lines 484 to 489 of handleRunAlgorithm for a payload that prepare
\* accepts: the prepared input and options and the cache key.
DeriveKey(payload) ==
  WithPrepared(Get(payload, K_algorithmId).v,
               prepare(Coalesce(Get(payload, K_input), JObj(<<>>)),
                       Coalesce(Get(payload, K_options), JObj(<<>>))))

\* Lines 474 to 487, idValue being payload.algorithmId.
WithAlgorithmId(payload, idValue) ==
  IF ~(idValue.t = "str" /\ idValue.v # <<>>)
  THEN Ended(MessageResponse(400, "Missing required property algorithmId."))
  ELSE IF ~Registered(idValue.v)
  THEN Ended(MessageResponse(404, "Algorithm was not found."))
  ELSE WithPrepared(idValue.v,
                    prepare(Coalesce(Get(payload, K_input), JObj(<<>>)),
                            Coalesce(Get(payload, K_options), JObj(<<>>))))

\* Lines 467 to 474, parsed being the outcome of parseJson.
WithPayload(parsed) ==
  IF ~parsed.ok THEN Ended(MessageResponse(400, parsed.error.message))
  ELSE WithAlgorithmId(parsed.value, Get(parsed.value, K_algorithmId))

\* handleRunAlgorithm from its entry to the GetCommand (lines 466 to 494),
\* with the catch of handler around it: either the response that ends the
\* request, or the algorithmId, prepared input and options and cache key
\* the request goes on with.
RunUntilLookup(body) == WithPayload(parseJson(body))

\* The test of line 496 never finding a cached result.
Hit_Never(items) == FALSE

\* cached.Item?.result (line 496), items being <<>> or the one item read.
Hit(items) == items # <<>> /\ items[1].result # NoResult

\* The result handed on as execute or the store gave it.
augmentResultWithOptions_Unchanged(result, options) == result

\* augmentResultWithOptions(result, options)
augmentResultWithOptions(result, options) ==
  [result EXCEPT !.diagnostics =
     [k \in DOMAIN result.diagnostics \cup {"optionsUsed"} |->
        IF k = "optionsUsed" THEN options ELSE result.diagnostics[k]]]

\* A get answered with whatever item the table holds, under any key.
ItemsWithId_AnyKey(table, id) ==
  IF table # {} THEN <<CHOOSE it \in table : TRUE>> ELSE <<>>

\* The items of the table with the key id: none or one.
ItemsWithId(table, id) ==
  IF \E it \in table : it.id = id THEN <<CHOOSE it \in table : it.id = id>>
  ELSE <<>>

\* A put that leaves an existing item with the same key in place.
PutItem_IfAbsent(table, item) ==
  IF \E it \in table : it.id = item.id THEN table ELSE table \cup {item}

\* The effect of PutCommand on the table: the item replaces any item with
\* the same key.
PutItem(table, item) == {it \in table : it.id # item.id} \cup {item}

\* The bodies of the requests.
PathGraph == RawGraph(<<>>, << <<A, B>>, <<B, C>> >>)
EngineBodies ==
  { EmptyBody,
    MalformedBody,
    JsonBody(JNum(5)),
    JsonBody(JArr(<<>>)),
    JsonBody(JObj(<< <<K_input, PathGraph>> >>)),
    JsonBody(JObj(<< <<K_algorithmId, JNum(1)>>, <<K_input, PathGraph>> >>)),
    JsonBody(Payload(<<"k">>, PathGraph, JUndef)),
    JsonBody(Payload(KargerId, JObj(<< <<K_edges, JArr(<<>>)>> >>), JUndef)),
    JsonBody(Payload(KargerId, PathGraph, RawIterations(0))),
    JsonBody(Payload(KargerId, RawGraph(<<>>, << <<A, B>> >>), JUndef)),
    JsonBody(Payload(KargerId, PathGraph, RawIterations(2))) }

(***************************************************************************)
(* The router: handler and normalisePath.  Paths are strings over letters,  *)
(* "/", ".", "?" and "#".                                                   *)
(***************************************************************************)
GET == <<"G", "E", "T">>
POST == <<"P", "O", "S", "T">>
OPTIONS == <<"O", "P", "T", "I", "O", "N", "S">>
PathRoot == <<"/">>
PathAlgorithms == <<"/", "a", "l", "g", "o", "r", "i", "t", "h", "m", "s">>
PathRun == <<"/", "r", "u", "n">>
PathHealth == <<"/", "h", "e", "a", "l", "t", "h">>

RECURSIVE BeforeAny(_, _)
\* The part of s before its first character in stops.
BeforeAny(s, stops) ==
  IF s = <<>> \/ Head(s) \in stops THEN <<>>
  ELSE <<Head(s)>> \o BeforeAny(Tail(s), stops)

RECURSIVE DropLeadingSlashes(_)
DropLeadingSlashes(s) ==
  IF s # <<>> /\ Head(s) = "/" THEN DropLeadingSlashes(Tail(s)) ELSE s

\* The replacement removing one trailing slash only.
StripTrailingSlashes_One(s) ==
  IF s # <<>> /\ s[Len(s)] = "/" THEN SubSeq(s, 1, Len(s) - 1) ELSE s

RECURSIVE StripTrailingSlashes(_)
\* s.replace(/\/+$/, '')
StripTrailingSlashes(s) ==
  IF s # <<>> /\ s[Len(s)] = "/"
  THEN StripTrailingSlashes(SubSeq(s, 1, Len(s) - 1))
  ELSE s

\* The input of the URL parser without its query and fragment.
UrlInput(path) == BeforeAny(path, {"?", "#"})

\* The input names a host: it starts with two slashes, and the parser skips
\* every slash that follows them.
HasAuthority(input) == Len(input) >= 2 /\ input[1] = "/" /\ input[2] = "/"

UrlHost(input) == BeforeAny(DropLeadingSlashes(input), {"/"})

\* new URL(path, 'https://placeholder') throws: the host is empty.
UrlThrows(path) == HasAuthority(UrlInput(path)) /\ UrlHost(UrlInput(path)) = <<>>

\* What the parser's path state is given: what follows the host, the input
\* itself when it starts with one slash, and otherwise the input appended to
\* the directory of the base URL, which is "/".
UrlPathInput(input) ==
  IF HasAuthority(input)
  THEN SubSeq(DropLeadingSlashes(input), Len(UrlHost(input)) + 1,
              Len(DropLeadingSlashes(input)))
  ELSE IF input # <<>> /\ Head(input) = "/" THEN input
  ELSE <<"/">> \o input

RECURSIVE PathSegments(_, _)
\* The path state of the URL parser on rest, every segment of which follows
\* a slash: "." is skipped and ".." removes the last segment, each leaving
\* an empty segment when it ends the path.
PathSegments(rest, segments) ==
  IF rest = <<>> THEN segments
  ELSE LET segment == BeforeAny(Tail(rest), {"/"})
           after == SubSeq(rest, Len(segment) + 2, Len(rest))
           kept == IF segment = <<".", ".">>
                   THEN IF segments = <<>> THEN <<>>
                        ELSE SubSeq(segments, 1, Len(segments) - 1)
                   ELSE segments
       IN IF segment \in {<<".">>, <<".", ".">>}
          THEN PathSegments(after, IF after = <<>> THEN Append(kept, <<>>) ELSE kept)
          ELSE PathSegments(after, Append(segments, segment))

RECURSIVE SerializePath(_)
SerializePath(segments) ==
  IF segments = <<>> THEN <<>>
  ELSE <<"/">> \o Head(segments) \o SerializePath(Tail(segments))

\* new URL(path, 'https://placeholder').pathname when the parser accepts
\* the path.
UrlPathname(path) ==
  IF UrlPathInput(UrlInput(path)) = <<>> THEN PathRoot
  ELSE SerializePath(PathSegments(UrlPathInput(UrlInput(path)), <<>>))

\* s || '/'
OrRoot(s) == IF s = <<>> THEN PathRoot ELSE s

\* normalisePath(path): the path is undefined or a string.
normalisePath(path) ==
  IF ~Truthy(path) THEN PathRoot
  ELSE IF UrlThrows(path.v) THEN OrRoot(StripTrailingSlashes(path.v))
  ELSE OrRoot(StripTrailingSlashes(UrlPathname(path.v)))

\* buildResponse(statusCode, body) for the bodies the router itself writes:
\* '', { status: 'ok' } and { message: 'Not Found' }.
RouterResponse(statusCode, body) == [statusCode |-> statusCode, body |-> body]

\* The handler has returned the response of the function named.
Delegated(target) == [target |-> target, response |-> RouterResponse(0, "")]

\* The handler has answered by itself.
Answers(response) == [target |-> "none", response |-> response]

\* The router sending every request for /run to handleRunAlgorithm, whatever
\* its method.
Dispatch_RunForAnyMethod(method, path) ==
  IF path = PathRun THEN Delegated("handleRunAlgorithm")
  ELSE IF method = OPTIONS THEN Answers(RouterResponse(204, ""))
  ELSE IF method = GET /\ path = PathAlgorithms THEN Delegated("handleListAlgorithms")
  ELSE IF method = GET /\ path = PathHealth
  THEN Answers(RouterResponse(200, "{\"status\":\"ok\"}"))
  ELSE Answers(RouterResponse(404, "{\"message\":\"Not Found\"}"))

\* Lines 433 to 450 of handler, given the method and the normalised path.
Dispatch(method, path) ==
  IF method = OPTIONS THEN Answers(RouterResponse(204, ""))
  ELSE IF method = GET /\ path = PathAlgorithms THEN Delegated("handleListAlgorithms")
  ELSE IF method = POST /\ path = PathRun THEN Delegated("handleRunAlgorithm")
  ELSE IF method = GET /\ path = PathHealth
  THEN Answers(RouterResponse(200, "{\"status\":\"ok\"}"))
  ELSE Answers(RouterResponse(404, "{\"message\":\"Not Found\"}"))

\* An event with its requestContext.http.method and .path, each undefined
\* or a string.
Event(method, path) == [method |-> method, path |-> path]

\* handler(event) up to the call of the function it delegates to.
handler(event) ==
  Dispatch(Coalesce(event.method, JStr(GET)).v, normalisePath(event.path))

\* The events of the model.
EventMethods ==
  {JUndef, JStr(GET), JStr(POST), JStr(OPTIONS), JStr(<<"P", "U", "T">>),
   JStr(<<"g", "e", "t">>), JStr(<<>>)}

EventPaths ==
  {JUndef, JStr(<<>>), JStr(PathRoot), JStr(PathRun), JStr(PathAlgorithms),
   JStr(PathHealth),
   JStr(PathRun \o <<"/">>), JStr(PathRun \o <<"/", "/">>),
   JStr(PathAlgorithms \o <<"/">>),
   JStr(PathHealth \o <<"?", "x">>), JStr(PathRun \o <<"#", "x">>),
   JStr(Tail(PathRun)), JStr(<<"/", "x", "/", ".", ".">> \o PathRun),
   JStr(<<"/", ".">> \o PathHealth), JStr(PathRun \o <<"x">>),
   JStr(PathRun \o <<"/", "x">>), JStr(<<"/", "/", "x">> \o PathRun),
   JStr(<<"/", "/">>), JStr(PathRun \o <<"/", ".", ".">>)}

Events == {Event(method, path) : method \in EventMethods, path \in EventPaths}

\* The event of a POST /run request.
PostRun == Event(JStr(POST), JStr(PathRun))

(***************************************************************************)
(* State.                                                                   *)
(***************************************************************************)
VARIABLES
  kInput,      \* execute: the KargerInput being run
  kOptions,    \* execute: context.options
  kIterations, \* execute: iterations
  kIteration,  \* execute: the loop variable iteration
  kAcc,        \* execute: bestCut, bestPartitions, bestIteration, runHistory
  kRun,        \* singleRun: edges, components, step
  kPc,         \* "idle", "run" (inside singleRun), "done", "failed"
  kResult      \* what execute resolved or rejected with

kvars == <<kInput, kOptions, kIterations, kIteration, kAcc, kRun, kPc, kResult>>

VARIABLES
  eValue,      \* a value given to stableStringify
  ePermuted,   \* the same value with the keys of its mappings reordered
  eEncoded     \* <<>>, or the encodings of eValue and of ePermuted

evars == <<eValue, ePermuted, eEncoded>>

VARIABLES
  qPayloads,   \* two request payloads
  qDerived     \* <<>>, or what DeriveKey gives for each of them

qvars == <<qPayloads, qDerived>>

VARIABLES
  store,       \* the table of the Result Store: a set of items, one per id
  clock,       \* the time new Date() last returned
  req,         \* for each request, its position and locals (see IdleRequest)
  writeLog     \* history: the items written, in the order of the writes

svars == <<store, clock, req, writeLog>>

VARIABLES
  lBody,       \* the body of a POST /run request
  lRun         \* <<>>, or <<what handleRunAlgorithm makes of lBody up to the GetCommand>>

lvars == <<lBody, lRun>>

VARIABLES
  algorithms,  \* AlgorithmRegistry.algorithms: the registered algorithms in insertion order
  registered   \* history: the outcome of the last call of register

gvars == <<algorithms, registered>>

VARIABLES
  route        \* for each request, its method and path and what handler made of them

hvars == <<route>>

vars == <<kvars, evars, qvars, svars, lvars, gvars, hvars>>

KargerIdle ==
  /\ kInput = [vertices |-> <<>>, edges |-> <<>>]
  /\ kOptions = JObj(<<>>)
  /\ kIterations = 0
  /\ kIteration = 0
  /\ kAcc = ExecuteStart
  /\ kRun = RunStart([vertices |-> <<>>, edges |-> <<>>])
  /\ kPc = "idle"
  /\ kResult = Failed(ClientError(""))

EncodeIdle ==
  /\ eValue = JNull
  /\ ePermuted = JNull
  /\ eEncoded = <<>>

KeyIdle ==
  /\ qPayloads = <<>>
  /\ qDerived = <<>>

\* A request that has not arrived.  pc is "waiting", then "get" (the
\* GetCommand is with the store), "put" (the PutCommand is with the store),
\* "written" (the put has completed) and "responded".  gets, puts and
\* executions count the commands sent and the runs of the algorithm;
\* sawRecord, recordAtStart, storeFailed and respondedBefore are history,
\* and raised is what runWithPrepared rejected with.
IdleRequest ==
  [pc |-> "waiting", body |-> EmptyBody, algorithmId |-> <<>>,
   prepared |-> NoResult, cacheKey |-> <<>>, items |-> <<>>,
   result |-> NoResult, createdAt |-> 0, response |-> MessageResponse(0, ""),
   gets |-> 0, puts |-> 0, executions |-> 0,
   sawRecord |-> FALSE, recordAtStart |-> FALSE, storeFailed |-> FALSE,
   respondedBefore |-> {}, raised |-> NoResult]

EngineIdle ==
  /\ store = {}
  /\ clock = 0
  /\ req = [r \in Requests |-> IdleRequest]
  /\ writeLog = <<>>

LookupIdle ==
  /\ lBody = EmptyBody
  /\ lRun = <<>>

\* The registry as the module leaves it (lines 413 and 414).
RegistryIdle ==
  /\ algorithms = <<KargerMinCut>>
  /\ registered = [outcome |-> "returned", algorithm |-> KargerMinCut]

\* Every request is a POST /run that handler has handed to
\* handleRunAlgorithm.
RouteIdle ==
  route = [r \in Requests |-> [pc |-> "routed", event |-> PostRun,
                               routed |-> handler(PostRun)]]

(***************************************************************************)
(* execute, step by step: one action per pass of the contraction loop and   *)
(* one per completed run.                                                   *)
(***************************************************************************)
\* execute is entered with a parsed input and validated options.
KargerInit ==
  /\ EncodeIdle
  /\ KeyIdle
  /\ EngineIdle
  /\ LookupIdle
  /\ RegistryIdle
  /\ RouteIdle
  /\ \E explicit \in ExplicitVertexChoices,
     pairs \in SeqsUpTo(EdgePairs, MaxEdges),
     n \in 1..MaxIterations :
    LET input == parseInput(RawGraph(explicit, pairs))
        options == parseOptions(KargerOptionDefinitions, RawIterations(n))
    IN /\ input.ok
       /\ options.ok
       /\ kInput = input.value
       /\ kOptions = options.value
       /\ kIterations = resolveIterations(input.value, options.value)
       /\ kIteration = 1
       /\ kAcc = ExecuteStart
       /\ kRun = RunStart(input.value)
       /\ kPc = "run"
       /\ kResult = Failed(ClientError(""))

\* One pass of the loop of singleRun.
Contract ==
  /\ kPc = "run"
  /\ LoopGuard(kRun)
  /\ \E randomIndex \in 1..Len(kRun.edges) :
       LET next == ContractStep(kRun, randomIndex)
       IN /\ kRun' = next
          /\ IF next.ok
             THEN UNCHANGED <<kPc, kResult>>
             ELSE kPc' = "failed" /\ kResult' = Failed(next.error)
  /\ UNCHANGED <<kInput, kOptions, kIterations, kIteration, kAcc>>
  /\ UNCHANGED <<evars, qvars, svars, lvars, gvars, hvars>>

\* singleRun returns and execute records the run; after the last iteration
\* execute returns its result.
FinishRun ==
  /\ kPc = "run"
  /\ kRun.ok
  /\ ~LoopGuard(kRun)
  /\ LET acc == ExecuteRecord(kAcc, kIteration, RunResult(kRun, kInput))
     IN /\ kAcc' = acc
        /\ kIteration' = kIteration + 1
        /\ IF kIteration + 1 <= kIterations
           THEN /\ kRun' = RunStart(kInput)
                /\ UNCHANGED <<kPc, kResult>>
           ELSE /\ kPc' = "done"
                /\ kResult' = Succeeded(ExecuteResult(acc, kIterations))
                /\ UNCHANGED kRun
  /\ UNCHANGED <<kInput, kOptions, kIterations>>
  /\ UNCHANGED <<evars, qvars, svars, lvars, gvars, hvars>>

KargerNext == Contract \/ FinishRun

SpecKarger == KargerInit /\ [][KargerNext]_vars

(***************************************************************************)
(* stableStringify applied to a value and to a reordering of it.            *)
(***************************************************************************)
EncodeInit ==
  /\ KargerIdle
  /\ KeyIdle
  /\ EngineIdle
  /\ LookupIdle
  /\ RegistryIdle
  /\ RouteIdle
  /\ eValue \in EncodeValues
  /\ ePermuted \in Reorderings(eValue)
  /\ eEncoded = <<>>

Encode ==
  /\ eEncoded = <<>>
  /\ eEncoded' = <<stableStringify(eValue), stableStringify(ePermuted)>>
  /\ UNCHANGED <<eValue, ePermuted, kvars, qvars, svars, lvars, gvars, hvars>>

EncodeNext == Encode

SpecEncode == EncodeInit /\ [][EncodeNext]_vars

(***************************************************************************)
(* The cache keys of two requests.                                          *)
(***************************************************************************)
KeyInit ==
  /\ KargerIdle
  /\ EncodeIdle
  /\ EngineIdle
  /\ LookupIdle
  /\ RegistryIdle
  /\ RouteIdle
  /\ qPayloads \in KeyPayloads \X KeyPayloads
  /\ qDerived = <<>>

DeriveKeys ==
  /\ qDerived = <<>>
  /\ qDerived' = <<DeriveKey(qPayloads[1]), DeriveKey(qPayloads[2])>>
  /\ UNCHANGED <<qPayloads, kvars, evars, svars, lvars, gvars, hvars>>

KeyNext == DeriveKeys

SpecKey == KeyInit /\ [][KeyNext]_vars


(***************************************************************************)
(* handleRunAlgorithm up to the GetCommand, applied to one request body.    *)
(***************************************************************************)
\* Raw edges.
Pair(from, to) == JArr(<<from, to>>)
EdgeObject(fromKey, from, toKey, to) == JObj(<< <<fromKey, from>>, <<toKey, to>> >>)
Edges(edges) == JObj(<< <<K_edges, JArr(edges)>> >>)

\* The raw edges of the model: pairs of strings, of a number and null, of a
\* string and a sequence, sequences of other lengths, scalars, and objects
\* with the endpoint keys present, absent or null.
LookupEdges ==
  { Pair(JStr(A), JStr(B)), Pair(JStr(A), JStr(A)), Pair(JNum(1), JNull),
    Pair(JStr(A), JArr(<<JStr(B), JStr(C)>>)),
    JArr(<<JStr(A)>>), JArr(<<JStr(A), JStr(B), JStr(C)>>),
    JNum(7), JNull, JStr(<<"A", "B">>),
    FromTo(A, B), SourceTarget(A, B),
    EdgeObject(K_u, JStr(A), K_v, JStr(B)),
    EdgeObject(K_from, JStr(A), K_v, JNum(2)),
    JObj(<< <<K_from, JStr(A)>> >>), JObj(<< <<K_to, JStr(B)>> >>),
    JObj(<<>>),
    EdgeObject(K_from, JNull, K_to, JStr(B)),
    EdgeObject(K_u, JNull, K_v, JStr(B)),
    JObj(<< <<K_from, JNull>>, <<K_source, JStr(A)>>, <<K_to, JStr(B)>> >>) }

\* The raw inputs of the model: values that are not objects, objects
\* without edges or with edges that are no sequence or empty, one or two raw
\* edges, and a vertices entry that is a sequence or not, with entries that
\* repeat, that are not strings or that the edges name as well.
LookupInputs ==
  {JUndef, JNull, JNum(3), JStr(A), JBool(TRUE), JArr(<<>>), JObj(<<>>),
   JObj(<< <<K_edges, JStr(A)>> >>), JObj(<< <<K_edges, JObj(<<>>)>> >>),
   Edges(<<>>)}
  \cup {Edges(<<e>>) : e \in LookupEdges}
  \cup {Edges(<<Pair(JStr(A), JStr(B)), e>>) : e \in LookupEdges}
  \cup {JObj(<< <<K_vertices, v>>, <<K_edges, JArr(<<Pair(JStr(A), JStr(A))>>)>> >>) :
          v \in {JArr(<<JStr(B)>>), JArr(<<JStr(A)>>), JStr(B), JArr(<<JNum(1), JNull>>)}}
  \cup {JObj(<< <<K_vertices, v>>,
                <<K_edges, JArr(<<Pair(JStr(A), JStr(B)), Pair(JStr(B), JNum(1))>>)>> >>) :
          v \in {JArr(<<JStr(C), JStr(B), JStr(C)>>),
                 JArr(<<JNum(1), JStr(<<"1">>), JStr(A)>>)}}

\* The values supplied for the option iterations.
LookupIterations ==
  {JNull, JStr(<<>>), JNum(0), JNum(1), JNum(5), JNum(1000), JNum(1001),
   JNum(0 - 3), JFrac(2, 5), JBool(TRUE), JBool(FALSE),
   JStr(<<"5">>), JStr(<<" ", "7", " ">>), JStr(<<"1", "0", "0", "0">>),
   JStr(<<"1", "0", "0", "1">>), JStr(<<"0">>), JStr(<<"5", ".", "0">>),
   JStr(<<"2", ".", "5">>), JStr(<<"+", "5">>), JStr(<<"-", "5">>),
   JStr(<<"a", "b", "c">>), JStr(<<" ">>),
   JArr(<<>>), JArr(<<JNum(5)>>), JArr(<<JNum(1), JNum(2)>>), JObj(<<>>)}

K_extra == <<"e", "x", "t", "r", "a">>

\* The raw options of the model: absent, values that are not objects, and
\* objects with or without iterations and with or without an undeclared key.
LookupOptions ==
  {JUndef, JNull, JNum(5), JStr(<<"5">>), JBool(TRUE), JArr(<<JNum(5)>>),
   JObj(<<>>), JObj(<< <<K_extra, JNum(5)>> >>)}
  \cup {JObj(<< <<K_iterations, v>> >>) : v \in LookupIterations}
  \cup {JObj(<< <<K_extra, JStr(A)>>, <<K_iterations, v>> >>) : v \in LookupIterations}

UnknownId == <<"k">>

LookupBodies ==
  {JsonBody(Payload(id, input, options)) :
     id \in {KargerId, UnknownId}, input \in LookupInputs, options \in LookupOptions}

LookupInit ==
  /\ KargerIdle
  /\ EncodeIdle
  /\ KeyIdle
  /\ EngineIdle
  /\ RegistryIdle
  /\ RouteIdle
  /\ lBody \in LookupBodies
  /\ lRun = <<>>

\* Lines 466 to 489 of handleRunAlgorithm with the catch of handler.
Lookup ==
  /\ lRun = <<>>
  /\ lRun' = <<RunUntilLookup(lBody)>>
  /\ UNCHANGED <<lBody, kvars, evars, qvars, svars, gvars, hvars>>

LookupNext == Lookup

SpecLookup == LookupInit /\ [][LookupNext]_vars

(***************************************************************************)
(* The registry from its construction, under any sequence of register      *)
(* calls.                                                                   *)
(***************************************************************************)
AlgorithmIds == {KargerId, <<"a">>, <<"b">>}

AlgorithmNames == {"Karger's Minimum Cut", "another"}

Algorithms == {Algorithm(id, name) : id \in AlgorithmIds, name \in AlgorithmNames}

\* new AlgorithmRegistry(), line 395: the map is empty and register has not
\* been called.
RegistryInit ==
  /\ KargerIdle /\ EncodeIdle /\ KeyIdle /\ EngineIdle
  /\ LookupIdle /\ RouteIdle
  /\ algorithms = <<>>
  /\ registered = [outcome |-> "never", algorithm |-> KargerMinCut]

\* register without its test of has: Map.set replaces the value under a key
\* that is present and keeps the key's place.
Register_Overwrite(algorithm) ==
  /\ algorithms' =
       IF Has(algorithms, algorithm.id)
       THEN [i \in 1..Len(algorithms) |->
               IF algorithms[i].id = algorithm.id THEN algorithm ELSE algorithms[i]]
       ELSE Append(algorithms, algorithm)
  /\ registered' = [outcome |-> "returned", algorithm |-> algorithm]
  /\ UNCHANGED <<kvars, evars, qvars, svars, lvars, hvars>>

\* register(algorithm), lines 397 to 402.
Register(algorithm) ==
  /\ IF Has(algorithms, algorithm.id)
     THEN /\ registered' = [outcome |-> "thrown", algorithm |-> algorithm]
          /\ UNCHANGED algorithms
     ELSE /\ algorithms' = Append(algorithms, algorithm)
          /\ registered' = [outcome |-> "returned", algorithm |-> algorithm]
  /\ UNCHANGED <<kvars, evars, qvars, svars, lvars, hvars>>

RegistryNext == \E algorithm \in Algorithms : Register(algorithm)

SpecRegistry == RegistryInit /\ [][RegistryNext]_vars

(***************************************************************************)
(* Properties of the minimum-cut algorithm, checked under SpecKarger.       *)
(***************************************************************************)
\* The number of edges with one endpoint in side0 and the other in side1.
CrossingEdges(edges, side0, side1) ==
  Cardinality({i \in 1..Len(edges) :
                 \E a \in {1, 2} :
                   /\ edges[i][a] \in side0
                   /\ edges[i][3 - a] \in side1})

\* The minimum, over the splits of the vertex set into two non-empty sides,
\* of the number of edges crossing the split.
TrueMinCut(input) ==
  LET V == Range(input.vertices)
      splits == {S \in SUBSET V : S # {} /\ S # V}
      size(S) == CrossingEdges(input.edges, S, V \ S)
  IN CHOOSE m \in 0..Len(input.edges) :
       /\ \E S \in splits : size(S) = m
       /\ \A S \in splits : size(S) >= m

KOutput == kResult.value.output

\* C8: the minCut of every result of execute is the number of original
\* edges with one endpoint in partitions[0] and the other in partitions[1].
C8_MinCutCountsCrossingEdges ==
  kPc = "done" =>
    KOutput.minCut = JNum(CrossingEdges(kInput.edges,
                                        Range(KOutput.partitions[1]),
                                        Range(KOutput.partitions[2])))

\* A run ended with two groups and a positive cut, found by the second
\* iteration.
C8_Witness ==
  /\ kPc = "done"
  /\ KOutput.partitions[2] # <<>>
  /\ KOutput.minCut = JNum(1)
  /\ kResult.value.diagnostics.bestIteration = 2

\* C9: the minCut execute reports is never below the true minimum cut of
\* the input graph.
C9_TrueMinCutIsLowerBound ==
  kPc = "done" => KOutput.minCut.v >= TrueMinCut(kInput)

AllSelfLoops(input) == \A i \in 1..Len(input.edges) : input.edges[i][1] = input.edges[i][2]

\* C10 as stated: whenever every edge is a self-loop, execute succeeds with
\* minCut 0, all vertices in one partition and the other partition empty.
C10_SelfLoopsGiveOnePartition ==
  AllSelfLoops(kInput) =>
    /\ kPc # "failed"
    /\ kPc = "done" =>
         /\ KOutput.minCut = JNum(0)
         /\ Range(KOutput.partitions[1]) = Range(kInput.vertices)
         /\ KOutput.partitions[2] = <<>>

\* C10 amended: whenever every edge is a self-loop, execute succeeds with
\* minCut 0; with three or more vertices partitions[0] holds all the
\* vertices and partitions[1] is empty, and with exactly two vertices the
\* partitions are the two single vertices.
C10_SelfLoopsGiveZeroCut ==
  AllSelfLoops(kInput) =>
    /\ kPc # "failed"
    /\ kPc = "done" =>
         /\ KOutput.minCut = JNum(0)
         /\ IF Len(kInput.vertices) = 2
            THEN KOutput.partitions = << <<kInput.vertices[1]>>, <<kInput.vertices[2]>> >>
            ELSE KOutput.partitions = <<kInput.vertices, <<>>>>

\* Three vertices, only self-loops, every one of them picked and discarded.
C10_Witness ==
  /\ kPc = "done"
  /\ AllSelfLoops(kInput)
  /\ Len(kInput.vertices) = 3
  /\ kRun.step = Len(kInput.edges)
  /\ kRun.step >= 2

(***************************************************************************)
(* Properties of the canonical encoder and of the cache key.                *)
(***************************************************************************)
QInput(i) == Get(qPayloads[i], K_input)
QOptions(i) == Get(qPayloads[i], K_options)
QSameKey == qDerived[1].cacheKey = qDerived[2].cacheKey

\* The raw options that resolve to the default: omitted, 40 and "40".
DefaultingOptions == {KeyOptions[1], KeyOptions[2], KeyOptions[3]}

\* C6: with the hash taken as injective, two requests get the same cache key
\* exactly when they name the same algorithmId and their parsed input and
\* validated options are equal; options omitted, 40 and "40" share a key,
\* edges as pairs and as from/to objects share a key, and reordering the
\* edges or changing iterations gives another key.
C6_SameKeyIffSamePreparedRequest ==
  qDerived # <<>> =>
    /\ QSameKey <=> /\ qDerived[1].algorithmId = qDerived[2].algorithmId
                    /\ qDerived[1].prepared.input = qDerived[2].prepared.input
                    /\ qDerived[1].prepared.options = qDerived[2].prepared.options
    /\ (/\ QInput(1) = QInput(2)
        /\ QOptions(1) \in DefaultingOptions
        /\ QOptions(2) \in DefaultingOptions) => QSameKey
    /\ (/\ QInput(1) = KeyInputs[1]
        /\ QInput(2) = KeyInputs[2]
        /\ QOptions(1) = QOptions(2)) => QSameKey
    /\ (QInput(1) = KeyInputs[1] /\ QInput(2) = KeyInputs[3]) => ~QSameKey
    /\ (QOptions(1) = KeyOptions[2] /\ QOptions(2) = KeyOptions[4]) => ~QSameKey

\* Edges as pairs without options and edges as objects with iterations "40"
\* have been given the same key.
C6_Witness ==
  /\ qDerived # <<>>
  /\ QInput(1) = KeyInputs[1]
  /\ QInput(2) = KeyInputs[2]
  /\ QOptions(1) = JUndef
  /\ QOptions(2) = KeyOptions[3]
  /\ QSameKey

\* C7: stableStringify gives a mapping the same encoding whatever the
\* insertion order of its keys, at any depth, and encodes a sequence as its
\* elements' encodings in their order.
C7_EncodingIgnoresKeyOrder ==
  eEncoded # <<>> =>
    /\ eEncoded[1] = eEncoded[2]
    /\ eValue.t = "arr" =>
         eEncoded[1] = <<"[">>
                       \o Join([i \in 1..Len(eValue.v) |-> stableStringify(eValue.v[i])],
                               <<",">>)
                       \o <<"]">>

Init ==
  /\ KargerIdle /\ EncodeIdle /\ KeyIdle /\ EngineIdle
  /\ LookupIdle /\ RegistryIdle /\ RouteIdle

(***************************************************************************)
(* POST /run, one action per stretch of handleRunAlgorithm between two      *)
(* awaits and one per answer of the store.  Requests run in separate        *)
(* invocations and share nothing but the store.                             *)
(***************************************************************************)
Responded == {r \in Requests : req[r].pc = "responded"}

\* The request `arrived` after lines 466 to 494 gave `run`, the table and
\* the requests already answered being as given when the GetCommand is sent.
Received(arrived, run, table, responded) ==
  IF run.ended
  THEN [arrived EXCEPT !.pc = "responded", !.response = run.response]
  ELSE [arrived EXCEPT !.pc = "get",
                       !.algorithmId = run.algorithmId,
                       !.prepared = run.prepared,
                       !.cacheKey = run.cacheKey,
                       !.gets = @ + 1,
                       !.recordAtStart = ItemsWithId(table, run.cacheKey) # <<>>,
                       !.respondedBefore = responded]

\* The request arrives: lines 466 to 494.  It is answered at once when the
\* body, the algorithmId, the input or the options are rejected; otherwise
\* the GetCommand is sent.
Receive(r) ==
  /\ route[r].pc = "routed"
  /\ route[r].routed.target = "handleRunAlgorithm"
  /\ req[r].pc = "waiting"
  /\ \E body \in EngineBodies :
       req' = [req EXCEPT ![r] =
                 Received([req[r] EXCEPT !.body = body], RunUntilLookup(body),
                          store, Responded)]
  /\ UNCHANGED <<store, clock, writeLog, kvars, evars, qvars, lvars, gvars, hvars>>

\* A hit that writes the record it has read back with a new timestamp.
GetHit_Refresh(r) ==
  /\ req[r].pc = "get"
  /\ LET items == ItemsWithId(store, req[r].cacheKey)
     IN /\ Hit(items)
        /\ store' = PutItem(store, [items[1] EXCEPT !.createdAt = clock + 1])
        /\ writeLog' = Append(writeLog,
                          [request |-> r,
                           item |-> [items[1] EXCEPT !.createdAt = clock + 1]])
        /\ req' = [req EXCEPT ![r] =
             [@ EXCEPT !.pc = "responded",
                       !.items = items,
                       !.sawRecord = TRUE,
                       !.response =
                         ResultResponse(req[r].algorithmId, TRUE,
                           augmentResultWithOptions(items[1].result,
                                                    req[r].prepared.options))]]
  /\ UNCHANGED <<clock, kvars, evars, qvars, lvars, gvars, hvars>>

\* The store answers the get with an item holding a result: lines 496 to
\* 506, the response carries the stored result with optionsUsed set anew.
GetHit(r) ==
  /\ req[r].pc = "get"
  /\ LET items == ItemsWithId(store, req[r].cacheKey)
     IN /\ Hit(items)
        /\ req' = [req EXCEPT ![r] =
             [@ EXCEPT !.pc = "responded",
                       !.items = items,
                       !.sawRecord = TRUE,
                       !.response =
                         ResultResponse(req[r].algorithmId, TRUE,
                           augmentResultWithOptions(items[1].result,
                                                    req[r].prepared.options))]]
  /\ UNCHANGED <<store, clock, writeLog, kvars, evars, qvars, lvars, gvars, hvars>>

\* The store answers the get without a result: lines 508 to 519, the
\* algorithm is executed, its result augmented and the PutCommand sent with
\* the time of that moment.  An error of execute ends the request in the
\* catch of handler.
GetMiss(r) ==
  /\ req[r].pc = "get"
  /\ LET items == ItemsWithId(store, req[r].cacheKey)
     IN /\ ~Hit(items)
        /\ \E outcome \in execute(req[r].prepared.input, req[r].prepared.options),
              now \in {clock, clock + 1} :
             /\ clock' = now
             /\ req' = [req EXCEPT ![r] =
                  IF outcome.ok
                  THEN [@ EXCEPT !.pc = "put",
                                 !.items = items,
                                 !.sawRecord = items # <<>>,
                                 !.executions = @ + 1,
                                 !.result = augmentResultWithOptions(
                                              outcome.value, req[r].prepared.options),
                                 !.createdAt = now,
                                 !.puts = @ + 1]
                  ELSE [@ EXCEPT !.pc = "responded",
                                 !.items = items,
                                 !.sawRecord = items # <<>>,
                                 !.executions = @ + 1,
                                 !.raised = outcome.error,
                                 !.response = ErrorResponse(outcome.error)]]
  /\ UNCHANGED <<store, writeLog, kvars, evars, qvars, lvars, gvars, hvars>>

\* The get fails: dynamo.send rejects and the catch of handler answers.
GetFails(r) ==
  /\ req[r].pc = "get"
  /\ req' = [req EXCEPT ![r] =
       [@ EXCEPT !.pc = "responded",
                 !.storeFailed = TRUE,
                 !.response = ErrorResponse(PlainError("The store rejected the get."))]]
  /\ UNCHANGED <<store, clock, writeLog, kvars, evars, qvars, lvars, gvars, hvars>>

\* The item the PutCommand of request r carries (lines 513 to 518).
ItemOf(r) ==
  [id |-> req[r].cacheKey, algorithmId |-> req[r].algorithmId,
   createdAt |-> req[r].createdAt, result |-> req[r].result]

\* A put the store acknowledges without keeping the item.
StorePut_Dropped(r) ==
  /\ req[r].pc = "put"
  /\ req' = [req EXCEPT ![r].pc = "written"]
  /\ UNCHANGED <<store, writeLog, clock, kvars, evars, qvars, lvars, gvars, hvars>>

\* The store performs the put.
StorePut(r) ==
  /\ req[r].pc = "put"
  /\ store' = PutItem(store, ItemOf(r))
  /\ writeLog' = Append(writeLog, [request |-> r, item |-> ItemOf(r)])
  /\ req' = [req EXCEPT ![r].pc = "written"]
  /\ UNCHANGED <<clock, kvars, evars, qvars, lvars, gvars, hvars>>

\* A failed put answered 200 as if it had been written.
PutFails_Swallowed(r) ==
  /\ req[r].pc = "put"
  /\ req' = [req EXCEPT ![r] =
       [@ EXCEPT !.pc = "responded",
                 !.storeFailed = TRUE,
                 !.response = ResultResponse(req[r].algorithmId, FALSE, req[r].result)]]
  /\ UNCHANGED <<store, clock, writeLog, kvars, evars, qvars, lvars, gvars, hvars>>

\* The put fails: dynamo.send rejects and the catch of handler answers.
PutFails(r) ==
  /\ req[r].pc = "put"
  /\ req' = [req EXCEPT ![r] =
       [@ EXCEPT !.pc = "responded",
                 !.storeFailed = TRUE,
                 !.response = ErrorResponse(PlainError("The store rejected the put."))]]
  /\ UNCHANGED <<store, clock, writeLog, kvars, evars, qvars, lvars, gvars, hvars>>

\* The put has completed: lines 521 to 525.
Respond(r) ==
  /\ req[r].pc = "written"
  /\ req' = [req EXCEPT ![r] =
       [@ EXCEPT !.pc = "responded",
                 !.response = ResultResponse(req[r].algorithmId, FALSE, req[r].result)]]
  /\ UNCHANGED <<store, clock, writeLog, kvars, evars, qvars, lvars, gvars, hvars>>

Next ==
  \E r \in Requests :
    \/ Receive(r)
    \/ GetHit(r)
    \/ GetMiss(r)
    \/ GetFails(r)
    \/ StorePut(r)
    \/ PutFails(r)
    \/ Respond(r)

Spec == Init /\ [][Next]_vars

(***************************************************************************)
(* Properties of POST /run, checked under Spec.                             *)
(***************************************************************************)
\* Request r passed validation and went on to the store.
Valid(r) == req[r].gets = 1

\* Request r was answered 200 with the cached flag given.
Answered(r, cached) ==
  /\ req[r].pc = "responded"
  /\ req[r].response.statusCode = 200
  /\ req[r].response.cached = cached

\* The places in writeLog of the writes under the key id.
WritesUnder(id) == {i \in 1..Len(writeLog) : writeLog[i].item.id = id}

\* r1 responded before r2 started, both carry the same request, the store
\* held no record for its fingerprint when r1 started, no other request
\* wrote under that fingerprint, and the store failed neither of them.
OneAfterTheOther(r1, r2) ==
  /\ r1 # r2
  /\ Valid(r1) /\ Valid(r2)
  /\ req[r1].body = req[r2].body
  /\ r1 \in req[r2].respondedBefore
  /\ ~req[r1].recordAtStart
  /\ \A i \in WritesUnder(req[r1].cacheKey) : writeLog[i].request \in {r1, r2}
  /\ ~req[r1].storeFailed /\ ~req[r2].storeFailed

\* C1: when two identical valid requests run one after the other against a
\* store without a record for their fingerprint, the first responds
\* cached:false, the second cached:true, and their result.output is equal.
C1_SecondOfTwoIsServedFromTheStore ==
  \A r1, r2 \in Requests :
    (OneAfterTheOther(r1, r2) /\ req[r2].pc = "responded") =>
      /\ Answered(r1, FALSE)
      /\ Answered(r2, TRUE)
      /\ req[r1].response.result.output = req[r2].response.result.output

\* The second of two sequential requests for the path graph with two
\* iterations, whose runs can differ, has been answered from the store.
C1_Witness ==
  \E r1, r2 \in Requests :
    /\ OneAfterTheOther(r1, r2)
    /\ req[r1].body = JsonBody(Payload(KargerId, PathGraph, RawIterations(2)))
    /\ Answered(r2, TRUE)
    /\ req[r2].executions = 0
    /\ req[r1].executions = 1

\* Two requests with the same fingerprint were both answered 200 after both
\* were told by the store that there is no record.
BothMissed(r1, r2) ==
  /\ r1 # r2
  /\ Valid(r1) /\ Valid(r2)
  /\ req[r1].cacheKey = req[r2].cacheKey
  /\ req[r1].pc = "responded" /\ req[r1].response.statusCode = 200
  /\ req[r2].pc = "responded" /\ req[r2].response.statusCode = 200
  /\ req[r1].executions = 1 /\ req[r1].items = <<>>
  /\ req[r2].executions = 1 /\ req[r2].items = <<>>

\* The record the store holds under id is the one written last under id.
LastWriteStands(id) ==
  LET writes == WritesUnder(id)
      last == CHOOSE i \in writes : \A j \in writes : j <= i
  IN writes # {} => ItemsWithId(store, id) = <<writeLog[last].item>>

\* C2: two requests with the same fingerprint that both observe a miss both
\* execute the algorithm, both respond cached:false and both write a record
\* under the same key, and the store keeps the record written last.
C2_RacersBothExecuteAndLastWriteWins ==
  \A r1, r2 \in Requests :
    BothMissed(r1, r2) =>
      /\ Answered(r1, FALSE) /\ Answered(r2, FALSE)
      /\ \E i, j \in WritesUnder(req[r1].cacheKey) :
           /\ i # j
           /\ writeLog[i] = [request |-> r1, item |-> ItemOf(r1)]
           /\ writeLog[j] = [request |-> r2, item |-> ItemOf(r2)]
      /\ LastWriteStands(req[r1].cacheKey)

\* The race has happened: two concurrent requests with one fingerprint both
\* missed, executed and wrote different records, and the store holds the
\* later record in place of the earlier one.
C2_Witness ==
  \E r1, r2 \in Requests :
    /\ BothMissed(r1, r2)
    /\ r1 \notin req[r2].respondedBefore
    /\ r2 \notin req[r1].respondedBefore
    /\ Len(writeLog) = 2
    /\ writeLog[1].request = r1
    /\ writeLog[2].request = r2
    /\ writeLog[1].item.result.output # writeLog[2].item.result.output
    /\ store = {writeLog[2].item}

\* C3 as stated: once the store holds a record, no step of any request
\* changes or removes it.
C3_RecordsNeverChange == [][\A it \in store : it \in store']_vars

\* Request r completes its put in this step, having been told by the store
\* that there was no record, and its record takes the place of `it` under
\* the same fingerprint and algorithmId.
ReplacedByRacer(r, it) ==
  /\ req[r].pc = "put"
  /\ req'[r].pc = "written"
  /\ ~req[r].sawRecord
  /\ ItemOf(r).id = it.id
  /\ ItemOf(r).algorithmId = it.algorithmId
  /\ ItemOf(r) \in store'

\* C3 amended: a record is never removed, and it is replaced only by the
\* put of a request with the same fingerprint that read the store before
\* the record was created; a request that finds the record never writes.
C3_RecordsReplacedOnlyByRacers ==
  [][/\ \A it \in store : it \in store' \/ \E r \in Requests : ReplacedByRacer(r, it)
     /\ \A r \in Requests : req'[r].sawRecord => req'[r].puts = 0]_vars

\* A record has been replaced by the put of a request that had missed
\* before the record was written; a third write has not happened.
C3_Witness ==
  /\ Len(writeLog) = 2
  /\ writeLog[1].item.id = writeLog[2].item.id
  /\ writeLog[1].item # writeLog[2].item
  /\ writeLog[1].item \notin store
  /\ writeLog[2].item \in store
  /\ ~req[writeLog[2].request].sawRecord

\* The body fails validation: it is empty, not JSON or not an object, its
\* algorithmId is missing, not a string or empty, or the algorithm it names
\* rejects its input or its options.
FailsValidation(body) ==
  \/ body.kind # "json"
  \/ ~Truthy(body.json) \/ ~TypeofObject(body.json)
  \/ Get(body.json, K_algorithmId).t # "str"
  \/ Get(body.json, K_algorithmId).v = <<>>
  \/ /\ Registered(Get(body.json, K_algorithmId).v)
     /\ ~prepare(Coalesce(Get(body.json, K_input), JObj(<<>>)),
                 Coalesce(Get(body.json, K_options), JObj(<<>>))).ok

\* The bodies of the model that fail validation.
InvalidBodies == {body \in EngineBodies : FailsValidation(body)}

C5_StoreFailuresGive500 ==
  \A r \in Requests :
    (req[r].storeFailed /\ req[r].pc = "responded") =>
      /\ req[r].response.statusCode = 500
      /\ req[r].response.result = NoResult
      /\ ~req[r].response.cached

\* A request ran the algorithm, its put failed and it was answered 500; the
\* get of another request failed.
C5_Witness ==
  \E r1, r2 \in Requests :
    /\ req[r1].pc = "responded"
    /\ req[r1].storeFailed
    /\ req[r1].executions = 1
    /\ req[r1].puts = 1
    /\ req[r1].result # NoResult
    /\ req[r1].response.statusCode = 500
    /\ req[r2].pc = "responded"
    /\ req[r2].storeFailed
    /\ req[r2].executions = 0

(***************************************************************************)
(* Properties of validation, checked under SpecLookup.                      *)
(***************************************************************************)
LRun == lRun[1]
LId == Get(lBody.json, K_algorithmId).v
LInput == Coalesce(Get(lBody.json, K_input), JObj(<<>>))
LOptions == Coalesce(Get(lBody.json, K_options), JObj(<<>>))

\* The messages of the errors of parseInput.
InputMessages ==
  {"Input must be a JSON object with an \"edges\" property.",
   "Input must include a non-empty \"edges\" array.",
   "Edge at index must be an array like [from, to] or an object with from/to keys.",
   "The graph must contain at least two vertices."}

\* The request was answered 400 with an error of parseInput.
InputRejected ==
  /\ LRun.ended
  /\ LRun.response.statusCode = 400
  /\ LRun.response.message \in InputMessages

\* The endpoint an edge object gives under the keys, tried in their order:
\* the first value that is there and is not null, if any.
EndpointGiven(edge, keys) ==
  IF \E i \in 1..Len(keys) : ~Nullish(Get(edge, keys[i]))
  THEN Get(edge, keys[CHOOSE i \in 1..Len(keys) :
                        /\ ~Nullish(Get(edge, keys[i]))
                        /\ \A j \in 1..(i - 1) : Nullish(Get(edge, keys[j]))])
  ELSE JUndef

\* The endpoints of a raw edge: those of a two-element sequence or of an
\* object giving both; <<>> for anything else.
EndpointsGiven(edge) ==
  IF IsArray(edge)
  THEN IF Len(edge.v) = 2 THEN edge.v ELSE <<>>
  ELSE IF /\ edge.t = "obj"
          /\ EndpointGiven(edge, <<K_from, K_source, K_u>>) # JUndef
          /\ EndpointGiven(edge, <<K_to, K_target, K_v>>) # JUndef
  THEN <<EndpointGiven(edge, <<K_from, K_source, K_u>>),
         EndpointGiven(edge, <<K_to, K_target, K_v>>)>>
  ELSE <<>>

\* The distinct vertices of a raw input all of whose edges have endpoints.
DistinctVertices(raw) ==
  {ToStr(EndpointsGiven(e)[i]) : e \in Range(Get(raw, K_edges).v), i \in {1, 2}}
  \cup (IF IsArray(Get(raw, K_vertices))
        THEN {ToStr(v) : v \in Range(Get(raw, K_vertices).v)}
        ELSE {})

\* The raw input is one the parser is to reject: it is not an object, edges
\* is absent, not a sequence or empty, some edge has no two endpoints, or
\* fewer than two distinct vertices result.
InputToReject(raw) ==
  \/ raw.t \notin {"obj", "arr"}
  \/ ~IsArray(Get(raw, K_edges))
  \/ Get(raw, K_edges).v = <<>>
  \/ \E e \in Range(Get(raw, K_edges).v) : EndpointsGiven(e) = <<>>
  \/ Cardinality(DistinctVertices(raw)) < 2

\* C11: a request for the minimum-cut algorithm is answered 400 with an
\* error of parseInput exactly when its input is not an object, edges is
\* absent, not a sequence or empty, some edge is neither a two-element
\* sequence nor an object giving a from/source/u and a to/target/v
\* endpoint, or fewer than two distinct vertices result; it is never 500.
C11_InputRejectedExactlyWhenMalformed ==
  (lRun # <<>> /\ LId = KargerId) =>
    /\ InputRejected <=> InputToReject(LInput)
    /\ LRun.response.statusCode # 500

\* The value the payload supplies for iterations: none when the payload is
\* not an object.
SuppliedIterations ==
  IF LOptions.t \in {"obj", "arr"} THEN Get(LOptions, K_iterations) ELSE JUndef

\* The request got through validation.
Validated == ~LRun.ended

\* The messages of the errors of the option validator for an integer option.
OptionMessages ==
  {"must be an integer value", "must be >= minimum", "must be <= maximum"}

\* The request was answered 400 with an error of the option validator.
OptionRejected ==
  /\ LRun.ended
  /\ LRun.response.statusCode = 400
  /\ LRun.response.message \in OptionMessages

\* C12: for every options payload, object or not, that passes validation the
\* validated options hold exactly the declared key iterations, and when the
\* payload supplies no value, null or the empty string for it the payload
\* passes and iterations holds the default.
C12_ValidatedOptionsHoldExactlyDeclaredKeys ==
  (lRun # <<>> /\ LId = KargerId /\ ~InputRejected) =>
    /\ Validated =>
         /\ LRun.prepared.options.t = "obj"
         /\ [i \in 1..Len(LRun.prepared.options.v) |-> LRun.prepared.options.v[i][1]]
              = <<K_iterations>>
    /\ SuppliedIterations \in {JUndef, JNull, JStr(<<>>)} =>
         /\ Validated
         /\ LRun.prepared.options = JObj(<< <<K_iterations, JNum(DefaultIterations)>> >>)

\* A payload with an undeclared key and the empty string for iterations has
\* been validated to the default alone.
C12_Witness ==
  /\ lRun # <<>>
  /\ LOptions = JObj(<< <<K_extra, JStr(A)>>, <<K_iterations, JStr(<<>>)>> >>)
  /\ Validated
  /\ LRun.prepared.options = JObj(<< <<K_iterations, JNum(40)>> >>)

\* The numeric coercion of the values supplied for iterations: <<value,
\* "integer", n>> when it is the integer n, <<value, "other", 0>> when it is
\* not finite or not integral.
Coercions ==
  { <<JNum(0), "integer", 0>>, <<JNum(1), "integer", 1>>, <<JNum(5), "integer", 5>>,
    <<JNum(1000), "integer", 1000>>, <<JNum(1001), "integer", 1001>>,
    <<JNum(0 - 3), "integer", 0 - 3>>, <<JFrac(2, 5), "other", 0>>,
    <<JBool(TRUE), "integer", 1>>, <<JBool(FALSE), "integer", 0>>,
    <<JStr(<<"5">>), "integer", 5>>, <<JStr(<<" ", "7", " ">>), "integer", 7>>,
    <<JStr(<<"1", "0", "0", "0">>), "integer", 1000>>,
    <<JStr(<<"1", "0", "0", "1">>), "integer", 1001>>,
    <<JStr(<<"0">>), "integer", 0>>, <<JStr(<<"5", ".", "0">>), "integer", 5>>,
    <<JStr(<<"2", ".", "5">>), "other", 0>>, <<JStr(<<"+", "5">>), "integer", 5>>,
    <<JStr(<<"-", "5">>), "integer", 0 - 5>>, <<JStr(<<"a", "b", "c">>), "other", 0>>,
    <<JStr(<<" ">>), "integer", 0>>, <<JArr(<<>>), "integer", 0>>,
    <<JArr(<<JNum(5)>>), "integer", 5>>, <<JArr(<<JNum(1), JNum(2)>>), "other", 0>>,
    <<JObj(<<>>), "other", 0>> }

C18_AlgorithmThenInputThenOptions ==
  lRun # <<>> =>
    /\ LId = UnknownId =>
         /\ LRun.ended
         /\ LRun.response = MessageResponse(404, "Algorithm was not found.")
    /\ (/\ LId = KargerId
        /\ ~parseInput(LInput).ok
        /\ ~parseOptions(KargerOptionDefinitions, LOptions).ok) =>
         /\ LRun.ended
         /\ LRun.response = MessageResponse(400, parseInput(LInput).error.message)

\* A request with an empty edges sequence and iterations 0 has been answered
\* with the error of the input.
C18_Witness ==
  /\ lRun # <<>>
  /\ LId = KargerId
  /\ LInput = Edges(<<>>)
  /\ SuppliedIterations = JNum(0)
  /\ LRun.response = MessageResponse(400, "Input must include a non-empty \"edges\" array.")

(***************************************************************************)
(* One event from the router to its response.  The other requests have     *)
(* been answered by the router.                                             *)
(***************************************************************************)
Preflight == Event(JStr(OPTIONS), JUndef)

RouteInit ==
  /\ KargerIdle /\ EncodeIdle /\ KeyIdle /\ EngineIdle
  /\ LookupIdle /\ RegistryIdle
  /\ \E event \in Events :
       route = [r \in Requests |->
                  IF r = 1
                  THEN [pc |-> "arrived", event |-> event,
                        routed |-> Answers(RouterResponse(0, ""))]
                  ELSE [pc |-> "routed", event |-> Preflight,
                        routed |-> handler(Preflight)]]

\* handler(event), lines 429 to 450, up to the call of the function it
\* delegates to.
Route(r) ==
  /\ route[r].pc = "arrived"
  /\ route' = [route EXCEPT ![r] = [@ EXCEPT !.pc = "routed",
                                             !.routed = handler(route[r].event)]]
  /\ UNCHANGED <<kvars, evars, qvars, svars, lvars, gvars>>

RouteNext ==
  \E r \in Requests :
    \/ Route(r)
    \/ Receive(r)
    \/ GetMiss(r)
    \/ GetFails(r)
    \/ StorePut(r)
    \/ PutFails(r)
    \/ Respond(r)

SpecRoute == RouteInit /\ [][RouteNext]_vars

(***************************************************************************)
(* POST /run against an algorithm whose execute may reject.  The handler    *)
(* calls runWithPrepared on whatever AlgorithmBase the registry returns     *)
(* (lines 479 and 508); execute is the operation a subclass supplies.       *)
(***************************************************************************)
\* What execute may reject with: an Error, a ClientError, and a value that
\* is not an Error.
Raisable ==
  {PlainError("execute failed"), ClientError("execute refused the input"),
   ErrorOf("value", "", "", 0 - 1)}

\* A rejection of runWithPrepared answered with the result the request
\* would have had, after the put has been sent.
ExecuteRaises_Partial(r) ==
  /\ req[r].pc = "get"
  /\ ~Hit(ItemsWithId(store, req[r].cacheKey))
  /\ \E error \in Raisable,
        outcome \in execute(req[r].prepared.input, req[r].prepared.options) :
       req' = [req EXCEPT ![r] =
                 [@ EXCEPT !.pc = "put",
                           !.executions = @ + 1,
                           !.raised = error,
                           !.result = outcome.value,
                           !.puts = @ + 1]]
  /\ UNCHANGED <<store, clock, writeLog, kvars, evars, qvars, lvars, gvars, hvars>>

\* The store answers the get without a result and runWithPrepared rejects
\* (line 508): lines 509 to 525 are skipped and the catch of handler
\* (lines 451 to 458) answers.
ExecuteRaises(r) ==
  /\ req[r].pc = "get"
  /\ ~Hit(ItemsWithId(store, req[r].cacheKey))
  /\ \E error \in Raisable :
       req' = [req EXCEPT ![r] =
                 [@ EXCEPT !.pc = "responded",
                           !.items = ItemsWithId(store, req[r].cacheKey),
                           !.sawRecord = ItemsWithId(store, req[r].cacheKey) # <<>>,
                           !.executions = @ + 1,
                           !.raised = error,
                           !.response = ErrorResponse(error)]]
  /\ UNCHANGED <<store, clock, writeLog, kvars, evars, qvars, lvars, gvars, hvars>>

RaiseNext ==
  \E r \in Requests :
    \/ Receive(r)
    \/ GetHit(r)
    \/ GetMiss(r)
    \/ ExecuteRaises(r)
    \/ StorePut(r)
    \/ Respond(r)

SpecRaise == Init /\ [][RaiseNext]_vars

\* The method of the event of request r, a missing method being GET.
MethodOf(r) ==
  IF route[r].event.method = JUndef THEN GET ELSE route[r].event.method.v

\* Request r has not entered handleRunAlgorithm, and nothing has been read
\* from or written to the store for it.
StoreUntouchedBy(r) ==
  /\ req[r] = IdleRequest
  /\ \A i \in 1..Len(writeLog) : writeLog[i].request # r

\* C14: every event is answered by the rule of its method and normalised
\* path: OPTIONS gets 204 with an empty body whatever the path and without
\* touching the store, GET /algorithms, POST /run and GET /health go to
\* their handlers, everything else gets 404 "Not Found", and a missing
\* method counts as GET.
C14_RoutingIsTotal ==
  \A r \in Requests :
    route[r].pc = "routed" =>
      LET path == normalisePath(route[r].event.path)
          routed == route[r].routed
      IN CASE MethodOf(r) = OPTIONS ->
                /\ routed = Answers(RouterResponse(204, ""))
                /\ StoreUntouchedBy(r)
           [] MethodOf(r) = GET /\ path = PathAlgorithms ->
                routed.target = "handleListAlgorithms" /\ StoreUntouchedBy(r)
           [] MethodOf(r) = POST /\ path = PathRun ->
                routed.target = "handleRunAlgorithm"
           [] MethodOf(r) = GET /\ path = PathHealth ->
                /\ routed = Answers(RouterResponse(200, "{\"status\":\"ok\"}"))
                /\ StoreUntouchedBy(r)
           [] OTHER ->
                /\ routed = Answers(RouterResponse(404, "{\"message\":\"Not Found\"}"))
                /\ StoreUntouchedBy(r)

\* An OPTIONS request for /run has been answered 204, and an event without
\* a method for /health/ would be answered as GET /health.
C14_Witness ==
  /\ route[1].pc = "routed"
  /\ route[1].event = Event(JStr(OPTIONS), JStr(PathRun))
  /\ route[1].routed.response.statusCode = 204
  /\ req[1].pc = "waiting"

(***************************************************************************)
(* Properties of the registry, checked under SpecRegistry.                  *)
(***************************************************************************)
\* C15: registering an algorithm whose id is already registered fails and
\* leaves the registry as it was; registering a new id adds exactly that
\* algorithm, after the ones already there.
C15_RegisterAddsOnlyNewIds ==
  [][IF Has(algorithms, registered'.algorithm.id)
     THEN registered'.outcome = "thrown" /\ algorithms' = algorithms
     ELSE /\ registered'.outcome = "returned"
          /\ algorithms' = Append(algorithms, registered'.algorithm)]_gvars

\* The registry holds two algorithms and a call for an id it holds, with
\* another algorithm object, has thrown.
C15_Witness ==
  /\ Len(algorithms) = 2
  /\ registered.outcome = "thrown"
  /\ \E i \in 1..Len(algorithms) :
       /\ algorithms[i].id = registered.algorithm.id
       /\ algorithms[i] # registered.algorithm

(***************************************************************************)
(* Properties of the hit and the miss of POST /run, checked under Spec.     *)
(***************************************************************************)
\* The places in writeLog of the writes of request r.
WritesBy(r) == {i \in 1..Len(writeLog) : writeLog[i].request = r}

\* Request r is answered in this step.
AnsweredNow(r, cached) == req[r].pc # "responded" /\ Answered(r, cached)'

\* C16: a request answered from the store has not executed the algorithm
\* and has sent no put, its response is cached:true with the result of the
\* record it read, which a request wrote, and the step that answers it
\* leaves the store as it was.
C16_HitChangesNothing ==
  /\ [](\A r \in Requests :
          Answered(r, TRUE) =>
            /\ req[r].executions = 0
            /\ req[r].puts = 0
            /\ WritesBy(r) = {}
            /\ req[r].items # <<>>
            /\ \E i \in 1..Len(writeLog) : writeLog[i].item = req[r].items[1]
            /\ req[r].response.result = req[r].items[1].result)
  /\ [][\A r \in Requests :
          AnsweredNow(r, TRUE) => UNCHANGED <<store, writeLog, clock>>]_vars

\* A request has been answered from the record another request wrote, and
\* the store still holds that record.
C16_Witness ==
  \E r \in Requests :
    /\ Answered(r, TRUE)
    /\ req[r].items # <<>>
    /\ req[r].items[1] \in store
    /\ \E i \in 1..Len(writeLog) :
         writeLog[i].request # r /\ writeLog[i].item = req[r].items[1]

\* The record request r writes when its response is as given.
RecordOf(r, response) ==
  [id |-> req[r].cacheKey, algorithmId |-> req[r].algorithmId,
   createdAt |-> req[r].createdAt, result |-> response.result]

\* C17: a request that misses executes the algorithm once before its put is
\* sent, writes one record under its fingerprint with the algorithmId, the
\* timestamp and the augmented result, and is answered 200 cached:false
\* only when that write is in the store's log, with the result written.
C17_MissExecutesWritesThenResponds ==
  /\ [](\A r \in Requests :
          /\ req[r].pc = "put" =>
               req[r].executions = 1 /\ req[r].puts = 1 /\ WritesBy(r) = {}
          /\ req[r].pc = "written" =>
               /\ req[r].executions = 1 /\ req[r].puts = 1
               /\ \E i \in WritesBy(r) :
                    WritesBy(r) = {i} /\ writeLog[i].item = ItemOf(r)
          /\ Answered(r, FALSE) =>
               /\ req[r].executions = 1 /\ req[r].puts = 1
               /\ "optionsUsed" \in DOMAIN req[r].response.result.diagnostics
               /\ \E i \in WritesBy(r) :
                    /\ WritesBy(r) = {i}
                    /\ writeLog[i].item = RecordOf(r, req[r].response))
  /\ [][\A r \in Requests :
          AnsweredNow(r, FALSE) =>
            /\ req[r].pc = "written"
            /\ WritesBy(r) # {}
            /\ UNCHANGED <<store, writeLog>>]_vars

\* A request that missed has been answered cached:false after its one
\* write, while another request's write under the same key came later.
C17_Witness ==
  \E r \in Requests :
    /\ Answered(r, FALSE)
    /\ WritesBy(r) = {1}
    /\ Len(writeLog) = 2
    /\ writeLog[2].item.id = req[r].cacheKey

\* The results execute can return for the prepared input and options.
ResultsOf(prepared) ==
  {outcome.value :
     outcome \in {o \in execute(prepared.input, prepared.options) : o.ok}}

\* The bodies of the model that pass validation.
ValidBodies == {body \in EngineBodies : ~RunUntilLookup(body).ended}

\* The results execute can return for each valid body.
ResultsFor == [body \in ValidBodies |-> ResultsOf(RunUntilLookup(body).prepared)]

\* `result` is `from` but for diagnostics.optionsUsed, which is `options`.
Augmented(result, from, options) ==
  /\ result.output = from.output
  /\ result.summary = from.summary
  /\ DOMAIN result.diagnostics = DOMAIN from.diagnostics \cup {"optionsUsed"}
  /\ \A k \in DOMAIN from.diagnostics \ {"optionsUsed"} :
       result.diagnostics[k] = from.diagnostics[k]
  /\ result.diagnostics.optionsUsed = options

\* C20: the result of every 200 response and of every record written has
\* diagnostics.optionsUsed equal to the validated options of the request
\* it belongs to, and is otherwise the result the store held (hit) or a
\* result of execute for the request (miss and record).
C20_OptionsUsedAreTheValidatedOptions ==
  /\ \A r \in Requests :
       /\ Answered(r, TRUE) =>
            Augmented(req[r].response.result, req[r].items[1].result,
                      req[r].prepared.options)
       /\ Answered(r, FALSE) =>
            \E from \in ResultsFor[req[r].body] :
              Augmented(req[r].response.result, from, req[r].prepared.options)
  /\ \A i \in 1..Len(writeLog) :
       \E from \in ResultsFor[req[writeLog[i].request].body] :
         Augmented(writeLog[i].item.result, from,
                   req[writeLog[i].request].prepared.options)

\* A request with explicit options has been answered from the store and
\* another one after its own run, both with those options as optionsUsed.
C20_Witness ==
  \E r1, r2 \in Requests :
    /\ Answered(r1, FALSE) /\ Answered(r2, TRUE)
    /\ req[r1].body = JsonBody(Payload(KargerId, PathGraph, RawIterations(2)))
    /\ req[r2].response.result.diagnostics.optionsUsed = req[r2].prepared.options
    /\ req[r2].prepared.options # JObj(<<>>)
    /\ WritesBy(r1) # {}

(***************************************************************************)
(* Properties of a failing execute, checked under SpecRaise.                *)
(***************************************************************************)
\* C19: a request whose execute raised has written no record and sent no
\* put, is answered without a result, with 400 and the error's message for
\* a client error and with 500 for any other error, and the step in which
\* execute raises leaves the store as it was.
C19_NoPartialResults ==
  /\ [](\A r \in Requests :
          req[r].raised # NoResult =>
            /\ req[r].pc = "responded"
            /\ req[r].puts = 0
            /\ WritesBy(r) = {}
            /\ req[r].response.result = NoResult
            /\ req[r].response.statusCode =
                 (IF req[r].raised.class = "ClientError" THEN 400 ELSE 500)
            /\ req[r].raised.class \in {"ClientError", "Error"} =>
                 req[r].response.message = req[r].raised.message)
  /\ [][\A r \in Requests :
          (req[r].raised = NoResult /\ req'[r].raised # NoResult) =>
            UNCHANGED <<store, writeLog>>]_vars

\* One request was answered 400 after execute raised a client error, and
\* the next request with the same body found no record and ran.
C19_Witness ==
  \E r1, r2 \in Requests :
    /\ r1 # r2
    /\ req[r1].raised # NoResult
    /\ req[r1].raised.class = "ClientError"
    /\ req[r1].response.statusCode = 400
    /\ r1 \in req[r2].respondedBefore
    /\ req[r2].body = req[r1].body
    /\ Answered(r2, FALSE)

(***************************************************************************)
(* Properties of the contraction loop, checked under SpecKarger.            *)
(***************************************************************************)
\* The labels of the representative map of a run.
Labels(run) == {run.components[i].label : i \in 1..Len(run.components)}

\* The groups of the representative map of a run.
Groups(run) == {run.components[i] : i \in 1..Len(run.components)}

\* This step is a pass of the loop of singleRun.
Pass == kPc = "run" /\ kRun'.step = kRun.step + 1

\* This step is a pass of the loop that merges two groups.
Merge == Pass /\ kRun'.components # kRun.components

\* C21: the label a merge gives the merged group is the label of no group
\* present in the map, so the merge takes the two merged groups out of the
\* map, puts one group in and leaves every other group as it was.
C21_MergedLabelIsUnique ==
  [][Merge =>
       /\ Cardinality(Labels(kRun') \ Labels(kRun)) = 1
       /\ Cardinality(Groups(kRun) \ Groups(kRun')) = 2
       /\ Len(kRun'.components) = Len(kRun.components) - 1]_vars

\* This step is the return of singleRun: the loop has ended and execute
\* records the run.
RunEnds == kPc = "run" /\ kIteration' = kIteration + 1

\* C22: the loop of a run terminates: a run makes no more passes than the
\* input has edges, every pass removes a working edge or leaves one group
\* less, and the loop ends with exactly two groups or with no working edge.
C22_ContractionTerminates ==
  /\ [](kRun.step <= Len(kInput.edges))
  /\ [][/\ Pass =>
             /\ kRun'.ok
             /\ \/ Len(kRun'.edges) < Len(kRun.edges)
                \/ Len(kRun'.components) = Len(kRun.components) - 1
        /\ RunEnds =>
             Len(kRun.components) = 2 \/ kRun.edges = <<>>]_vars

\* A run made as many passes as the input has edges, one of them discarding
\* an edge inside a group, and ended with two groups and no working edge.
C22_Witness ==
  /\ kPc = "done"
  /\ Len(kInput.edges) = 3
  /\ kRun.step = 3
  /\ Len(kInput.vertices) = 3
  /\ Len(kRun.components) = 2
  /\ kRun.edges = <<>>

\* C23: a run that ends with a number of groups other than two raises no
\* error and returns cut 0, every vertex of the input once in the first
\* partition and an empty second partition.
C23_DegenerateRunReportsAllVertices ==
  [][(RunEnds /\ Len(kRun.components) # 2) =>
       /\ kPc' # "failed"
       /\ kAcc'.runHistory[kIteration].cut = 0
       /\ RunResult(kRun, kInput).cut = 0
       /\ Range(RunResult(kRun, kInput).partitions[1]) = Range(kInput.vertices)
       /\ Len(RunResult(kRun, kInput).partitions[1]) = Len(kInput.vertices)
       /\ RunResult(kRun, kInput).partitions[2] = <<>>]_vars

\* C28: in every state of a run the groups are non-empty and pairwise
\* disjoint and hold together the vertices of the input, both endpoints of
\* every working edge are labels of the map, and no run has failed.
C28_GroupsPartitionTheVertices ==
  /\ kPc # "failed"
  /\ kPc = "run" =>
       /\ \A g \in Groups(kRun) : g.members # <<>>
       /\ \A i, j \in 1..Len(kRun.components) :
            i # j => Range(kRun.components[i].members)
                       \cap Range(kRun.components[j].members) = {}
       /\ UNION {Range(g.members) : g \in Groups(kRun)} = Range(kInput.vertices)
       /\ \A i \in 1..Len(kRun.edges) :
            kRun.edges[i][1] \in Labels(kRun) /\ kRun.edges[i][2] \in Labels(kRun)

\* C29: a run never has fewer than two groups: it starts with one group
\* per vertex, a merge happens only with more than two groups and leaves
\* one group less, and a run that ends without two groups has three or more.
C29_NeverFewerThanTwoGroups ==
  /\ [](kPc \in {"run", "done"} => Len(kRun.components) >= 2)
  /\ [][/\ Merge =>
             /\ Len(kRun.components) > 2
             /\ Len(kRun'.components) = Len(kRun.components) - 1
        /\ (RunEnds /\ Len(kRun.components) # 2) =>
             Len(kRun.components) >= 3]_vars

\* At least one merge has happened in the run.
Merged == Groups(kRun) # Groups(RunStart(kInput))

\* C30: once a merge has happened the working list holds no edge from a
\* label to itself, and when two groups remain after a merge the number of
\* working edges is the cut size computed from the edges of the input.
C30_SurvivingEdgesAreTheCut ==
  (kPc \in {"run", "done"} /\ Merged) =>
    /\ \A i \in 1..Len(kRun.edges) : kRun.edges[i][1] # kRun.edges[i][2]
    /\ Len(kRun.components) = 2 =>
         Len(kRun.edges) = computeCutSize(kRun.components[1].members,
                                          kRun.components[2].members,
                                          kInput.edges)

(***************************************************************************)
(* Properties of the selection of the best run, checked under SpecKarger.   *)
(***************************************************************************)
\* The least cut of a trace.
LeastCut(runHistory) ==
  CHOOSE m \in {runHistory[i].cut : i \in 1..Len(runHistory)} :
    \A i \in 1..Len(runHistory) : m <= runHistory[i].cut

\* The first index of a trace with the cut given.
FirstWith(runHistory, cut) ==
  CHOOSE i \in 1..Len(runHistory) :
    /\ runHistory[i].cut = cut
    /\ \A j \in 1..(i - 1) : runHistory[j].cut # cut

\* C24: the trace of a result has one entry per iteration, numbered 1 to
\* iterations in order; minCut is the least cut of the trace, bestIteration
\* the first index with that cut and partitions the partitions of that run;
\* the best cut so far never increases from one iteration to the next.
C24_BestRunIsFirstWithLeastCut ==
  /\ [](kPc = "done" =>
          LET runHistory == kResult.value.diagnostics.runHistory
          IN /\ Len(runHistory) = kIterations
             /\ kResult.value.diagnostics.iterations = kIterations
             /\ \A i \in 1..Len(runHistory) : runHistory[i].iteration = i
             /\ KOutput.minCut = JNum(LeastCut(runHistory))
             /\ kResult.value.diagnostics.bestIteration =
                  FirstWith(runHistory, LeastCut(runHistory))
             /\ KOutput.partitions = kAcc.bestPartitions
             /\ kAcc.bestIteration = kResult.value.diagnostics.bestIteration)
  /\ [][RunEnds =>
          /\ kAcc.bestCut.t = "num" => kAcc'.bestCut.v <= kAcc.bestCut.v
          /\ kAcc'.bestPartitions =
               (IF kAcc'.bestIteration = kIteration
                THEN RunResult(kRun, kInput).partitions
                ELSE kAcc.bestPartitions)
          /\ kAcc'.bestIteration = kIteration =>
               kAcc'.runHistory[kIteration].cut = kAcc'.bestCut.v]_vars

\* Two runs found the same cut with different partitions, and the result
\* keeps the first.
C24_Witness ==
  /\ kPc = "done"
  /\ kIterations = 2
  /\ kResult.value.diagnostics.runHistory[1].cut = 1
  /\ kResult.value.diagnostics.runHistory[2].cut = 1
  /\ kResult.value.diagnostics.bestIteration = 1
  /\ KOutput.partitions # RunResult(kRun, kInput).partitions

(***************************************************************************)
(* Properties of the number of runs and of the parsed vertices, checked     *)
(* under SpecLookup.                                                        *)
(***************************************************************************)
\* n squared, kept between 1 and 1000.
ClampedSquare(n) ==
  IF n * n > MaxIterationsOption THEN MaxIterationsOption
  ELSE IF n * n < MinIterations THEN MinIterations ELSE n * n

\* The payload supplies a positive integer for iterations.
SuppliesPositiveInteger ==
  SuppliedIterations.t = "num" /\ SuppliedIterations.v >= 1

\* C25: when the payload of a validated request supplies no positive
\* integer for iterations, the number of runs execute makes for it is the
\* square of the number of parsed vertices, kept between 1 and 1000.
C25_FallbackIsClampedSquare ==
  (lRun # <<>> /\ Validated /\ ~SuppliesPositiveInteger) =>
    resolveIterations(LRun.prepared.input, LRun.prepared.options)
      = ClampedSquare(Len(LRun.prepared.input.vertices))

(***************************************************************************)
(* Properties of the normalisation of paths, checked under SpecRoute.       *)
(***************************************************************************)
\* A path that starts with one slash and has no query, no fragment and no
\* segment "." or "..": what the URL parser hands back as it is.
PlainPath(p) ==
  /\ p # <<>> /\ Head(p) = "/"
  /\ ~HasAuthority(p)
  /\ \A i \in 1..Len(p) : p[i] \notin {"?", "#", "."}

\* k slashes.
Slashes(k) == [i \in 1..k |-> "/"]

\* The path of the event of request r and what normalisePath makes of it.
PathOf(r) == route[r].event.path
NormalisedOf(r) == normalisePath(PathOf(r))

Listed ==
  (IF IsArray(Get(LInput, K_vertices))
   THEN [i \in 1..Len(Get(LInput, K_vertices).v) |-> ToStr(Get(LInput, K_vertices).v[i])]
   ELSE <<>>)
  \o [i \in 1..(2 * Len(LRun.prepared.input.edges)) |->
        LRun.prepared.input.edges[(i + 1) \div 2][2 - (i % 2)]]

\* The place of the first occurrence of a name in a list that holds it.
FirstPlace(name, list) ==
  CHOOSE i \in 1..Len(list) :
    list[i] = name /\ \A j \in 1..(i - 1) : list[j] # name

\* C27: the parsed vertex list holds every explicit vertex, as a string,
\* and every edge endpoint once, in the order of their first occurrence in
\* the explicit vertices followed by the endpoints in edge order; every
\* endpoint of a parsed edge is in the list.
C27_VerticesInFirstSeenOrder ==
  (lRun # <<>> /\ Validated) =>
    LET vertices == LRun.prepared.input.vertices
    IN /\ Range(vertices) = Range(Listed)
       /\ \A i, j \in 1..Len(vertices) :
            i < j => FirstPlace(vertices[i], Listed) < FirstPlace(vertices[j], Listed)
       /\ \A i \in 1..Len(LRun.prepared.input.edges) :
            /\ LRun.prepared.input.edges[i][1] \in Range(vertices)
            /\ LRun.prepared.input.edges[i][2] \in Range(vertices)

\* An input whose explicit vertices 1, "1", A repeat as strings and are
\* named by the edges [A,B], [B,1] as well has been parsed to 1, A, B.
C27_Witness ==
  /\ lRun # <<>>
  /\ Validated
  /\ Get(LInput, K_vertices) = JArr(<<JNum(1), JStr(<<"1">>), JStr(A)>>)
  /\ LRun.prepared.input.vertices = << <<"1">>, A, B >>
  /\ Len(Listed) = 7

(***************************************************************************)
(* Properties of the store under interleaved requests, checked under Spec.  *)
(***************************************************************************)
\* Request r takes a step.
Acts(r) == req'[r] # req[r]

\* C31: under any interleaving, a request answered cached:true was
\* answered after a request with the same fingerprint had written, with
\* the output of the record the store held under its fingerprint when it
\* looked; a request reads only under its own fingerprint, writes only
\* under it, and leaves the records under every other key as they were.
C31_HitsFollowWritesUnderTheSameKey ==
  /\ [](\A r \in Requests :
          /\ req[r].items # <<>> => req[r].items[1].id = req[r].cacheKey
          /\ \A i \in WritesBy(r) : writeLog[i].item.id = req[r].cacheKey
          /\ Answered(r, TRUE) =>
               /\ \E i \in 1..Len(writeLog) :
                    /\ writeLog[i].item.id = req[r].cacheKey
                    /\ writeLog[i].item = req[r].items[1]
               /\ req[r].response.result.output = req[r].items[1].result.output)
  /\ [][\A r \in Requests :
          /\ AnsweredNow(r, TRUE) =>
               /\ \E i \in 1..Len(writeLog) : writeLog[i].item.id = req'[r].cacheKey
               /\ \E it \in store :
                    /\ it.id = req'[r].cacheKey
                    /\ it.result.output = req'[r].response.result.output
          /\ Acts(r) =>
               /\ \A it \in store : it.id # req'[r].cacheKey => it \in store'
               /\ \A it \in store' \ store : it.id = req'[r].cacheKey]_vars

\* A request has been answered cached:true from the record of a request
\* that has written under the same fingerprint and is not yet answered.
C31_Witness ==
  \E r1, r2 \in Requests :
    /\ Answered(r1, TRUE)
    /\ req[r2].pc = "written"
    /\ req[r2].cacheKey = req[r1].cacheKey
    /\ WritesBy(r2) = {1}
    /\ req[r1].items = <<writeLog[1].item>>
    /\ req[r1].response.result.output = ItemOf(r2).result.output
====
